---- MODULE Spec2Model ----
(***************************************************************************)
(* Model of the CaribData harvesting pipeline (scripts/build_wb_fao.py and *)
(* scripts/fetch_messy.py): the on-disk cache, the FAOSTAT API -> bulk     *)
(* fallback chain, the World Bank build and the fail-soft error sidecars.  *)
(*                                                                         *)
(* Python values are tagged records [kind, val]; a raised exception is the *)
(* value Raised.  Time is counted in whole hours.                          *)
(***************************************************************************)
EXTENDS Integers, Sequences, FiniteSets, TLC

VARIABLES
    now,        \* wall clock, in hours
    cache,      \* cache_dir/<sha1(key)>.json : key -> file or NoFile
    bulkCache,  \* cache_dir/faostat_bulk/<sha1(url)>.zip : url -> file or NoFile
    call,       \* the last call made on the cache store, with its result
    lastSet,    \* the cache_set that nothing has followed yet, or NoCall
    faults,     \* upstream responses so far that were not the nominal one
    fao,        \* build_faostat_fbs: its position and local variables
    faoDir,     \* the FAOSTAT output folder out_dir/faostat_fbs
    faoLog,     \* what the current run of build_faostat_fbs did so far
    wb,         \* build_world_bank: its position and local variables
    wbDir,      \* the World Bank output folder out_dir/world_bank
    wbLog,      \* what the current run of build_world_bank did so far
    main,       \* main: its position, the loaded configuration, parts
    mainDir,    \* the top of the output tree: out_dir/_freshness.json
    httpCall,   \* one call of http_get: its position and its retry budget
    messy,      \* main of fetch_messy.py: its position and local variables
    messyDir    \* the messy output folder data/messy

cacheVars == <<now, cache, bulkCache, call, lastSet>>
faoVars == <<fao, faoDir, faoLog>>
wbVars == <<wb, wbDir, wbLog>>
mainVars == <<main, mainDir>>
messyVars == <<messy, messyDir>>
vars == <<cacheVars, faults, faoVars, wbVars, mainVars, httpCall, messyVars>>

(***************************************************************************)
(* Bounds                                                                  *)
(***************************************************************************)
MaxClock == 2
\* upstream responses, over a behaviour, that are not the nominal one
MaxFaults == 3
\* World Bank responses, over a behaviour, that are not the nominal one
MaxWbFaults == 2
\* runs of build_world_bank over one output folder
MaxWbRuns == 2
\* project.cache_ttl_hours of the configuration
CacheTtlHours == 1

(***************************************************************************)
(* Python values                                                           *)
(***************************************************************************)
PyNone == [kind |-> "none", val |-> 0]
Raised == [kind |-> "raise", val |-> 0]
PyInt(n) == [kind |-> "int", val |-> n]
PyStr(s) == [kind |-> "str", val |-> s]
PyList(items) == [kind |-> "list", val |-> items]
PyTuple(items) == [kind |-> "tuple", val |-> items]
\* a dict is the sequence of its <<key, value>> pairs, in insertion order
PyDict(pairs) == [kind |-> "dict", val |-> pairs]

\* str(n) for the integers the model uses
IntToStr(n) ==
    CASE n = 0 -> "0" [] n = 1 -> "1" [] n = 2 -> "2" [] n = 84 -> "84"
      [] n = 328 -> "328" [] n = 388 -> "388" [] n = 2019 -> "2019"
      [] n = 2020 -> "2020" [] OTHER -> "n"

(***************************************************************************)
(* json.dumps / json.loads.  A text is a tagged record as well; Garbage is *)
(* a text that is not JSON (a truncated or foreign file).                  *)
(***************************************************************************)
Garbage == [kind |-> "garbage", val |-> 0]

\* json.dumps turns a non-string dict key into its string
JsonKey(k) == IF k.kind = "str" THEN k.val ELSE IntToStr(k.val)

RECURSIVE JsonDumps(_)
JsonDumps(v) ==
    CASE v.kind = "none" -> [kind |-> "jnull", val |-> 0]
      [] v.kind = "int" -> [kind |-> "jnum", val |-> v.val]
      [] v.kind = "str" -> [kind |-> "jstr", val |-> v.val]
      [] v.kind \in {"list", "tuple"} ->
            [kind |-> "jarr", val |-> [i \in 1..Len(v.val) |-> JsonDumps(v.val[i])]]
      [] v.kind = "dict" ->
            [kind |-> "jobj",
             val |-> [i \in 1..Len(v.val) |->
                        <<JsonKey(v.val[i][1]), JsonDumps(v.val[i][2])>>]]

RECURSIVE JsonLoads(_)
JsonLoads(t) ==
    CASE t.kind = "garbage" -> Raised
      [] t.kind = "jnull" -> PyNone
      [] t.kind = "jnum" -> PyInt(t.val)
      [] t.kind = "jstr" -> PyStr(t.val)
      [] t.kind = "jarr" -> PyList([i \in 1..Len(t.val) |-> JsonLoads(t.val[i])])
      [] t.kind = "jobj" ->
            PyDict([i \in 1..Len(t.val) |->
                      <<PyStr(t.val[i][1]), JsonLoads(t.val[i][2])>>])

(***************************************************************************)
(* Cache store                                                             *)
(***************************************************************************)
NoFile == [kind |-> "nofile", mtime |-> 0, val |-> 0]
File(content, t) == [kind |-> "file", mtime |-> t, val |-> content]
Exists(f) == f.kind = "file"

\* datetime.now() - mtime > timedelta(hours = ttl_hours)
OlderThan(f, clock, ttl_hours) == clock - f.mtime > ttl_hours

\* cache_get on the entry file f of the key, read at time clock
cache_get_no_expiry(f, clock, ttl_hours) ==
    IF ~Exists(f) THEN PyNone
    ELSE IF JsonLoads(f.val) = Raised THEN PyNone ELSE JsonLoads(f.val)

cache_get_expire_at_zero(f, clock, ttl_hours) ==
    IF ~Exists(f) THEN PyNone
    ELSE IF OlderThan(f, clock, ttl_hours) THEN PyNone
    ELSE IF JsonLoads(f.val) = Raised THEN PyNone ELSE JsonLoads(f.val)

cache_get(f, clock, ttl_hours) ==
    IF ~Exists(f) THEN PyNone
    ELSE IF ttl_hours > 0 /\ OlderThan(f, clock, ttl_hours) THEN PyNone
    ELSE IF JsonLoads(f.val) = Raised THEN PyNone ELSE JsonLoads(f.val)

\* cache_set: the file written for the key
cache_set(value, clock) == File(JsonDumps(value), clock)

\* _download_with_cache: is the stored archive served without a request?
ZipServed(f, clock, ttl_hours) == Exists(f) /\ clock - f.mtime <= ttl_hours

\* _download_with_cache on the archive file f; http is the outcome of the
\* request (Raised, or the bytes of the response).
\* <<result, file', request issued>>
download_with_cache(f, clock, ttl_hours, http) ==
    IF ZipServed(f, clock, ttl_hours) THEN <<f.val, f, FALSE>>
    ELSE IF http = Raised THEN <<PyNone, f, TRUE>>
    ELSE <<http, File(http, clock), TRUE>>

(***************************************************************************)
(* pandas DataFrames: a sequence of column labels and a sequence of rows,  *)
(* each row the sequence of its cells, aligned with the labels.            *)
(***************************************************************************)
DF(columns, rows) == [columns |-> columns, rows |-> rows]
EmptyDF == DF(<<>>, <<>>)
NaN == [kind |-> "nan", val |-> 0]

\* df.empty
IsEmpty(df) == Len(df.rows) = 0 \/ Len(df.columns) = 0

\* position of the column labelled name, 0 when there is none
ColIndex(df, name) ==
    IF \E j \in 1..Len(df.columns) : df.columns[j] = PyStr(name)
    THEN CHOOSE j \in 1..Len(df.columns) :
            /\ df.columns[j] = PyStr(name)
            /\ \A k \in 1..(j - 1) : df.columns[k] # PyStr(name)
    ELSE 0

HasCol(df, name) == ColIndex(df, name) # 0

RECURSIVE SelectSeqBy(_, _)
\* the rows of a sequence whose index satisfies keep, in order
SelectSeqBy(rows, keep) ==
    IF Len(rows) = 0 THEN <<>>
    ELSE LET n == Len(rows)
             front == SelectSeqBy(SubSeq(rows, 1, n - 1), keep)
         IN IF keep[n] THEN Append(front, rows[n]) ELSE front

\* df[mask]
FilterRows(df, pred(_)) ==
    DF(df.columns, SelectSeqBy(df.rows, [i \in 1..Len(df.rows) |-> pred(df.rows[i])]))

\* pd.DataFrame(rows) for the list a FAOSTAT response carries: a list of
\* dicts gives the keys as columns; a list of lists gives integer labels
DataFrameOf(rows) ==
    IF Len(rows) = 0 THEN EmptyDF
    ELSE IF rows[1].kind = "dict"
    THEN DF([j \in 1..Len(rows[1].val) |-> rows[1].val[j][1]],
            [i \in 1..Len(rows) |-> [j \in 1..Len(rows[i].val) |-> rows[i].val[j][2]]])
    ELSE IF rows[1].kind = "list"
    THEN DF([j \in 1..Len(rows[1].val) |-> PyInt(j - 1)],
            [i \in 1..Len(rows) |-> rows[i].val])
    ELSE DF(<<PyInt(0)>>, [i \in 1..Len(rows) |-> <<rows[i]>>])

\* col.strip().lower() for the labels and area names the model uses
StripLower(s) ==
    CASE s = "Area Code (M49)" -> "area code (m49)"
      [] s = "Area Code" -> "area code"
      [] s = "Area" -> "area"
      [] s = "Item" -> "item"
      [] s = "Element" -> "element"
      [] s = "Year" -> "year"
      [] s = "Value" -> "value"
      [] s = "Unit" -> "unit"
      [] s = "Belize" -> "belize"
      [] s = "BELIZE" -> "belize"
      [] s = "Jamaica" -> "jamaica"
      [] s = "Guyana" -> "guyana"
      [] OTHER -> s

\* the name _std_cols gives a column, the label itself when none applies
StdName(col) ==
    LET c == StripLower(col) IN
    CASE c \in {"area code (m49)", "m49_code", "area_code", "areacode"} -> "area_code"
      [] c = "area" -> "area"
      [] c \in {"item code", "item_code"} -> "item_code"
      [] c = "item" -> "item"
      [] c = "element" -> "element"
      [] c = "year" -> "year"
      [] c = "value" -> "value"
      [] c = "unit" -> "unit"
      [] OTHER -> col

\* _std_cols: col.strip() raises on a label that is no string
std_cols(df) ==
    IF \E j \in 1..Len(df.columns) : df.columns[j].kind # "str" THEN Raised
    ELSE DF([j \in 1..Len(df.columns) |-> PyStr(StdName(df.columns[j].val))], df.rows)

\* pd.api.types.is_numeric_dtype(df[name])
IsNumericCol(df, name) ==
    \A i \in 1..Len(df.rows) : df.rows[i][ColIndex(df, name)].kind = "int"

\* str(cell)
CellStr(c) == IF c.kind = "int" THEN IntToStr(c.val) ELSE c.val

IsIn(x, seq) == \E i \in 1..Len(seq) : seq[i] = x

M49_BY_ISO3(iso3) ==
    CASE iso3 = "BLZ" -> 84 [] iso3 = "JAM" -> 388
      [] iso3 = "TTO" -> 780 [] iso3 = "GUY" -> 328

NAME_BY_ISO3(iso3) ==
    CASE iso3 = "BLZ" -> "Belize" [] iso3 = "JAM" -> "Jamaica"
      [] iso3 = "TTO" -> "Trinidad and Tobago" [] iso3 = "GUY" -> "Guyana"

\* the country filter of _filter_country_elements
FilterCountry(df, iso3) ==
    IF HasCol(df, "area_code") /\ IsNumericCol(df, "area_code")
    THEN LET j == ColIndex(df, "area_code")
             match(r) == r[j] = PyInt(M49_BY_ISO3(iso3))
         IN FilterRows(df, match)
    ELSE IF HasCol(df, "area")
    THEN LET j == ColIndex(df, "area")
             match(r) == StripLower(CellStr(r[j])) = StripLower(NAME_BY_ISO3(iso3))
         IN FilterRows(df, match)
    ELSE df

\* an element filter that looks the elements up in the item column
FilterElements_on_item(df, elements) ==
    IF Len(elements) > 0 /\ HasCol(df, "item")
    THEN LET j == ColIndex(df, "item")
             match(r) == IsIn(CellStr(r[j]), elements)
         IN FilterRows(df, match)
    ELSE df

\* the element filter of _filter_country_elements
FilterElements(df, elements) ==
    IF Len(elements) > 0 /\ HasCol(df, "element")
    THEN LET j == ColIndex(df, "element")
             match(r) == IsIn(CellStr(r[j]), elements)
         IN FilterRows(df, match)
    ELSE df

filter_country_elements(df, iso3, elements) ==
    FilterElements(FilterCountry(df, iso3), elements)

\* df[name] = value
WithColumn(df, name, value) ==
    IF HasCol(df, name)
    THEN DF(df.columns,
            [i \in 1..Len(df.rows) |-> [df.rows[i] EXCEPT ![ColIndex(df, name)] = value]])
    ELSE DF(Append(df.columns, PyStr(name)),
            [i \in 1..Len(df.rows) |-> Append(df.rows[i], value)])

\* df[keep] for keep = the labels of df that are in names, in df's order
KeepCols(df, names) ==
    LET idx == SelectSeqBy([j \in 1..Len(df.columns) |-> j],
                           [j \in 1..Len(df.columns) |->
                               df.columns[j].kind = "str" /\ df.columns[j].val \in names])
    IN DF([k \in 1..Len(idx) |-> df.columns[idx[k]]],
          [i \in 1..Len(df.rows) |-> [k \in 1..Len(idx) |-> df.rows[i][idx[k]]]])

OUT_COLUMNS ==
    {"area_code", "area", "item_code", "item", "element", "year", "value", "unit",
     "_domain", "_source"}

\* pd.concat([a, b], ignore_index=True): the union of the columns, NaN where
\* a frame lacks one
Concat2(a, b) ==
    LET extra == SelectSeqBy(b.columns,
                     [j \in 1..Len(b.columns) |->
                         \A k \in 1..Len(a.columns) : a.columns[k] # b.columns[j]])
        cols == a.columns \o extra
        cell(df, r, c) ==
            IF \E j \in 1..Len(df.columns) : df.columns[j] = c
            THEN r[CHOOSE j \in 1..Len(df.columns) : df.columns[j] = c]
            ELSE NaN
        widen(df) == [i \in 1..Len(df.rows) |->
                        [k \in 1..Len(cols) |-> cell(df, df.rows[i], cols[k])]]
    IN DF(cols, widen(a) \o widen(b))

RECURSIVE Concat(_)
Concat(dfs) ==
    IF Len(dfs) = 1 THEN dfs[1]
    ELSE Concat2(Concat(SubSeq(dfs, 1, Len(dfs) - 1)), dfs[Len(dfs)])

\* the order of the strings that occur in sort columns (Python compares
\* strings by code point)
SortedStrings ==
    <<"2019", "2020", "FBS/FBS", "FBS/FBSH", "FBS_BULK", "Food supply", "Maize", "Production", "Wheat">>

StrRank(s) == CHOOSE i \in 1..Len(SortedStrings) : SortedStrings[i] = s

CellKey(c) == IF c.kind = "int" THEN c.val ELSE StrRank(c.val)

RECURSIVE RowLess_descending(_, _, _)
\* the order of sort_values(ascending=False)
RowLess_descending(r1, r2, idx) ==
    IF Len(idx) = 0 THEN FALSE
    ELSE LET a == CellKey(r1[idx[1]])
             b == CellKey(r2[idx[1]])
         IN IF a # b THEN a > b ELSE RowLess_descending(r1, r2, Tail(idx))

RECURSIVE RowLess(_, _, _)
\* r1 sorts strictly before r2 on the columns at positions idx
RowLess(r1, r2, idx) ==
    IF Len(idx) = 0 THEN FALSE
    ELSE LET a == CellKey(r1[idx[1]])
             b == CellKey(r2[idx[1]])
         IN IF a # b THEN a < b ELSE RowLess(r1, r2, Tail(idx))

RECURSIVE InsertRow(_, _, _)
\* r inserted after the rows of the sorted sequence that do not sort after it
InsertRow(sorted, r, idx) ==
    IF Len(sorted) = 0 THEN <<r>>
    ELSE IF RowLess(r, sorted[Len(sorted)], idx)
    THEN Append(InsertRow(SubSeq(sorted, 1, Len(sorted) - 1), r, idx), sorted[Len(sorted)])
    ELSE Append(sorted, r)

RECURSIVE SortRows(_, _)
SortRows(rows, idx) ==
    IF Len(rows) = 0 THEN <<>>
    ELSE InsertRow(SortRows(SubSeq(rows, 1, Len(rows) - 1), idx), rows[Len(rows)], idx)

\* sort_cols = [c for c in names if c in df.columns]
SortCols(df, names) ==
    SelectSeqBy(names, [k \in 1..Len(names) |-> HasCol(df, names[k])])

sort_values_unsorted(df, names) == df

\* df.sort_values(by=sort_cols) when sort_cols is not empty; the cells of a
\* sort column are all numbers or all strings in the tables of the model
sort_values(df, names) ==
    LET by == SortCols(df, names) IN
    IF Len(by) = 0 THEN df
    ELSE DF(df.columns, SortRows(df.rows, [k \in 1..Len(by) |-> ColIndex(df, by[k])]))

\* d.get(key) on a dict value, Raised standing for a missing key
DictHas(d, key) == \E i \in 1..Len(d.val) : d.val[i][1] = PyStr(key)
DictGet(d, key) == d.val[CHOOSE i \in 1..Len(d.val) : d.val[i][1] = PyStr(key)][2]

\* _normalize_fao_payload: the list of rows of a response, as a sequence
normalize_fao_payload(obj) ==
    IF obj.kind = "dict" /\ DictHas(obj, "data") /\ DictGet(obj, "data").kind = "list"
    THEN DictGet(obj, "data").val
    ELSE IF obj.kind = "list" THEN obj.val
    ELSE <<>>

(***************************************************************************)
(* FAOSTAT configuration (the faostat_fbs section of catalog.yml)          *)
(***************************************************************************)
COUNTRIES_ISO3 == <<"BLZ", "JAM">>
DOMAINS == <<"FBS/FBS", "FBS/FBSH">>
ELEMENTS == <<"Food supply">>

Range(seq) == {seq[i] : i \in 1..Len(seq)}

\* the cache key of fao_fetch_domain: the url and its sorted parameters
FaoKey(dom, iso3) == <<dom, M49_BY_ISO3(iso3)>>
FaoKeys == {FaoKey(dom, iso3) : dom \in Range(DOMAINS), iso3 \in Range(COUNTRIES_ISO3)}

(***************************************************************************)
(* Upstream responses                                                      *)
(***************************************************************************)
ApiRow(iso3, item, element, year) ==
    PyDict(<< <<PyStr("Area Code (M49)"), PyInt(M49_BY_ISO3(iso3))>>,
              <<PyStr("Item"), PyStr(item)>>,
              <<PyStr("Element"), PyStr(element)>>,
              <<PyStr("Year"), PyInt(year)>> >>)

ApiPayload(rows) == PyDict(<< <<PyStr("data"), PyList(rows)>> >>)

\* the nominal answer: rows of the country, not in sort order
ApiData(iso3) ==
    ApiPayload(<< ApiRow(iso3, "Wheat", "Food supply", 2020),
                  ApiRow(iso3, "Maize", "Production", 2020),
                  ApiRow(iso3, "Maize", "Food supply", 2019) >>)
ApiEmpty == ApiPayload(<<>>)
\* rows of the country, none of a configured element
ApiOtherElements(iso3) == ApiPayload(<< ApiRow(iso3, "Maize", "Production", 2020) >>)
\* rows that are lists, not objects
ApiBadShape == PyList(<< PyList(<<PyInt(84), PyStr("Wheat")>>) >>)

\* rows of whatever areas, labelled with FAOSTAT's own area code only: a
\* table with neither an area_code nor an area column after _std_cols
ApiAreaRow(fao_code, item, element, year) ==
    PyDict(<< <<PyStr("Area Code"), PyInt(fao_code)>>,
              <<PyStr("Item"), PyStr(item)>>,
              <<PyStr("Element"), PyStr(element)>>,
              <<PyStr("Year"), PyInt(year)>> >>)
ApiNoArea ==
    ApiPayload(<< ApiAreaRow(109, "Wheat", "Food supply", 2020),
                  ApiAreaRow(91, "Maize", "Food supply", 2020) >>)

\* the body of a 200 response, or Raised when http_get raises
ApiNominal(iso3) == JsonDumps(ApiData(iso3))
ApiFaulty(iso3) ==
    { Raised, Garbage, JsonDumps(ApiEmpty), JsonDumps(ApiBadShape),
      JsonDumps(ApiOtherElements(iso3)) }

BulkColumns ==
    <<PyStr("Area Code (M49)"), PyStr("Area"), PyStr("Item"), PyStr("Element"), PyStr("Year")>>
BulkRow(iso3, item, element, year) ==
    <<PyInt(M49_BY_ISO3(iso3)), PyStr(NAME_BY_ISO3(iso3)), PyStr(item), PyStr(element),
      PyInt(year)>>

AllCountriesCsv ==
    DF(BulkColumns,
       << BulkRow("BLZ", "Wheat", "Food supply", 2020),
          BulkRow("JAM", "Maize", "Food supply", 2020),
          BulkRow("BLZ", "Maize", "Food supply", 2019),
          BulkRow("JAM", "Maize", "Production", 2020),
          BulkRow("GUY", "Wheat", "Food supply", 2020) >>)
\* Jamaica complete, Belize without a row of a configured element
PartialCsv ==
    DF(BulkColumns,
       << BulkRow("JAM", "Wheat", "Food supply", 2020),
          BulkRow("BLZ", "Maize", "Production", 2020),
          BulkRow("JAM", "Maize", "Food supply", 2020) >>)
FlagsCsv == DF(<<PyStr("Flag")>>, << <<PyStr("E")>> >>)

Member(name, content) == [name |-> name, content |-> content]
Zip(members) == [kind |-> "zip", val |-> members]
NotZip == [kind |-> "bytes", val |-> "<html>"]

ZipAll ==
    Zip(<< Member("Flags.csv", FlagsCsv),
           Member("FoodBalanceSheets_E_All_Data_(Normalized).csv", AllCountriesCsv) >>)
ZipPartial ==
    Zip(<< Member("FoodBalanceSheets_E_All_Data_(Normalized).csv", PartialCsv) >>)
ZipNoCsv == Zip(<< Member("readme.txt", EmptyDF) >>)

ZipNominal == ZipAll
ZipFaulty == { Raised, NotZip, ZipNoCsv, ZipPartial }

(***************************************************************************)
(* Reading the bulk archive                                                *)
(***************************************************************************)
EndsWithCsv(name) == name \in {"Flags.csv", "FoodBalanceSheets_E_All_Data_(Normalized).csv"}
HasAllData(name) == name = "FoodBalanceSheets_E_All_Data_(Normalized).csv"
NameLen(name) ==
    CASE name = "Flags.csv" -> 9
      [] name = "readme.txt" -> 10
      [] OTHER -> 45

\* the sort key of _choose_csv_in_zip, as one number
CsvRank(name) == (IF HasAllData(name) THEN 0 ELSE 100) + NameLen(name)

\* _choose_csv_in_zip: position of the chosen member, 0 for None
choose_csv_in_zip(members) ==
    LET cand == {m \in 1..Len(members) : EndsWithCsv(members[m].name)} IN
    IF cand = {} THEN 0
    ELSE CHOOSE m \in cand :
            \A k \in cand :
                \/ CsvRank(members[m].name) < CsvRank(members[k].name)
                \/ CsvRank(members[m].name) = CsvRank(members[k].name) /\ m <= k

\* _read_bulk_zip_to_df: zipfile.ZipFile raises on bytes that are no archive
read_bulk_zip_to_df(zip_bytes) ==
    IF zip_bytes.kind # "zip" THEN Raised
    ELSE LET m == choose_csv_in_zip(zip_bytes.val) IN
         IF m = 0 THEN EmptyDF ELSE zip_bytes.val[m].content

(***************************************************************************)
(* fao_fetch_domain on the entry file f of the request; http is what the   *)
(* request would be answered with.                                         *)
(***************************************************************************)
\* a fao_fetch_domain that stores an empty object when the request fails
fao_fetch_domain_caches_failure(f, clock, ttl, http) ==
    LET cached == cache_get(f, clock, ttl) IN
    IF cached # PyNone
    THEN [raised |-> FALSE, rows |-> normalize_fao_payload(cached), file |-> f,
          requested |-> FALSE]
    ELSE IF http = Raised
    THEN [raised |-> TRUE, rows |-> <<>>, file |-> cache_set(PyDict(<<>>), clock),
          requested |-> TRUE]
    ELSE LET body == IF JsonLoads(http) = Raised THEN PyDict(<<>>) ELSE JsonLoads(http)
         IN [raised |-> FALSE, rows |-> normalize_fao_payload(body),
             file |-> cache_set(body, clock), requested |-> TRUE]

fao_fetch_domain(f, clock, ttl, http) ==
    LET cached == cache_get(f, clock, ttl) IN
    IF cached # PyNone
    THEN [raised |-> FALSE, rows |-> normalize_fao_payload(cached), file |-> f,
          requested |-> FALSE]
    ELSE IF http = Raised
    THEN [raised |-> TRUE, rows |-> <<>>, file |-> f, requested |-> TRUE]
    ELSE LET body == IF JsonLoads(http) = Raised THEN PyDict(<<>>) ELSE JsonLoads(http)
         IN [raised |-> FALSE, rows |-> normalize_fao_payload(body),
             file |-> cache_set(body, clock), requested |-> TRUE]

(***************************************************************************)
(* build_faostat_fbs                                                       *)
(***************************************************************************)
FaoIdle ==
    [pc |-> "idle", i |-> 1, d |-> 1, combined |-> <<>>, api_got_any |-> FALSE,
     manifest_entries |-> <<>>, errors |-> <<>>, need_bulk_for |-> <<>>,
     bulk_df |-> EmptyDF, last_used_url |-> "", u |-> 1, b |-> 1]

FaoEmptyDir ==
    [files |-> [c \in Range(COUNTRIES_ISO3) |-> NoFile],
     manifest |-> NoFile, errors |-> NoFile, card |-> NoFile]

\* what the run in progress, or the last run, did, and the output folder it
\* started from
FaoNoLog ==
    [ended |-> FALSE, api |-> <<>>, mirrors |-> <<>>, apiWrote |-> {}, bulkWrote |-> {},
     hadFile |-> {}, before |-> FaoEmptyDir]

ErrorRecord(stage, iso3, dom, url) ==
    [stage |-> stage, country_iso3 |-> iso3, domain |-> dom, url |-> url]

\* a manifest entry that leaves the mirror out
ManifestEntry_no_url(iso3, df, clock, bulk_url) ==
    [path |-> iso3, country_iso3 |-> iso3, rows |-> Len(df.rows), updated_at |-> clock,
     bulk_url |-> ""]

ManifestEntry(iso3, df, clock, bulk_url) ==
    [path |-> iso3, country_iso3 |-> iso3, rows |-> Len(df.rows), updated_at |-> clock,
     bulk_url |-> bulk_url]

(***************************************************************************)
(* World Bank configuration (the world_bank and project sections)          *)
(***************************************************************************)
Indicator(code, name, unit) == [code |-> code, name |-> name, unit |-> unit, group |-> ""]

INDICATORS ==
    << Indicator("SP.POP.TOTL", "Population", "people"),
       Indicator("NY.GDP.MKTP.CD", "", "USD"),
       Indicator("SP.DYN.LE00.IN", "Life expectancy", "years"),
       Indicator("SL.UEM.TOTL.ZS", "Unemployment", "%"),
       Indicator("EN.ATM.CO2E.PC", "CO2 per capita", "t") >>
COUNTRIES == <<"BZ">>

WbCountryName(c) == CASE c = "BZ" -> "Belize" [] c = "JM" -> "Jamaica"

\* the cache keys of wb_fetch_series and wb_fetch_indicator_meta
WbSeriesKey(code, c) == <<"series", code, c>>
WbMetaKey(code) == <<"meta", code, "">>
WbKeys ==
    {WbMetaKey(INDICATORS[k].code) : k \in 1..Len(INDICATORS)}
    \cup {WbSeriesKey(INDICATORS[k].code, c) : k \in 1..Len(INDICATORS), c \in Range(COUNTRIES)}

\* the first element of a World Bank response
WbPage == PyDict(<< <<PyStr("page"), PyInt(1)>> >>)

WbRow(c, date, value) ==
    PyDict(<< <<PyStr("country"), PyDict(<< <<PyStr("id"), PyStr("ZZ")>>,
                                            <<PyStr("value"), PyStr(WbCountryName(c))>> >>)>>,
              <<PyStr("date"), PyStr(date)>>,
              <<PyStr("value"), PyInt(value)>> >>)

\* the nominal series: newest year first, as the API sends it
WbSeriesData(c) == PyList(<<WbPage, PyList(<<WbRow(c, "2020", 2), WbRow(c, "2019", 1)>>)>>)
\* an error message in place of the two elements
WbShort == PyList(<< PyDict(<< <<PyStr("message"), PyStr("invalid")>> >>) >>)
\* no rows: the second element is null
WbNoRows == PyList(<<WbPage, PyNone>>)
\* no rows: the second element is an empty list
WbEmptyRows == PyList(<<WbPage, PyList(<<>>)>>)
\* an object in place of the list
WbNotList == PyDict(<< <<PyStr("message"), PyStr("invalid")>> >>)
\* rows that are no objects
WbBadRows == PyList(<<WbPage, PyList(<<PyStr("x")>>)>>)

WbSeriesNominal(c) == JsonDumps(WbSeriesData(c))
WbSeriesFaulty ==
    { Raised, Garbage, JsonDumps(WbShort), JsonDumps(WbNoRows), JsonDumps(WbEmptyRows),
      JsonDumps(WbNotList), JsonDumps(WbBadRows) }

WbMetaData ==
    PyList(<<WbPage,
             PyList(<< PyDict(<< <<PyStr("name"), PyStr("WB name")>>,
                                 <<PyStr("sourceNote"), PyStr("WB\nnote ")>> >>) >>)>>)
\* an entry with a name whose sourceNote is a number
WbMetaBadNote ==
    PyList(<<WbPage,
             PyList(<< PyDict(<< <<PyStr("name"), PyStr("WB name")>>,
                                 <<PyStr("sourceNote"), PyInt(5)>> >>) >>)>>)
WbMetaNominal == JsonDumps(WbMetaData)
WbMetaFaulty == { Raised, JsonDumps(WbShort), JsonDumps(WbMetaBadNote) }

(***************************************************************************)
(* wb_fetch_series and wb_fetch_indicator_meta on the entry file f of the  *)
(* request; http is what the request would be answered with.  r.json()     *)
(* raises on a body that is no JSON.                                       *)
(***************************************************************************)
\* the same as wb_fetch_series, but it caches an empty object for a body
\* that is no JSON
wb_fetch_series_tolerant(f, clock, ttl, http) ==
    LET cached == cache_get(f, clock, ttl)
        data == IF http = Raised \/ JsonLoads(http) # Raised THEN JsonLoads(http)
                ELSE PyDict(<<>>)
    IN IF cached # PyNone
       THEN [raised |-> FALSE, data |-> cached, file |-> f, requested |-> FALSE]
       ELSE IF http = Raised
       THEN [raised |-> TRUE, data |-> PyNone, file |-> f, requested |-> TRUE]
       ELSE [raised |-> FALSE, data |-> data, file |-> cache_set(data, clock),
             requested |-> TRUE]

\* a wb_fetch_series that asks the server whatever the cache holds
wb_fetch_series_uncached(f, clock, ttl, http) ==
    LET data == JsonLoads(http)
    IN IF http = Raised \/ data = Raised
       THEN [raised |-> TRUE, data |-> PyNone, file |-> f, requested |-> TRUE]
       ELSE [raised |-> FALSE, data |-> data, file |-> cache_set(data, clock),
             requested |-> TRUE]

wb_fetch_series(f, clock, ttl, http) ==
    LET cached == cache_get(f, clock, ttl)
        data == JsonLoads(http)
    IN IF cached # PyNone
       THEN [raised |-> FALSE, data |-> cached, file |-> f, requested |-> FALSE]
       ELSE IF http = Raised \/ data = Raised
       THEN [raised |-> TRUE, data |-> PyNone, file |-> f, requested |-> TRUE]
       ELSE [raised |-> FALSE, data |-> data, file |-> cache_set(data, clock),
             requested |-> TRUE]

wb_fetch_indicator_meta(f, clock, ttl, http) ==
    LET cached == cache_get(f, clock, ttl)
        data == JsonLoads(http)
    IN IF cached # PyNone
       THEN [raised |-> FALSE, data |-> cached, file |-> f, requested |-> FALSE]
       ELSE IF http = Raised \/ data = Raised
       THEN [raised |-> TRUE, data |-> PyNone, file |-> f, requested |-> TRUE]
       ELSE [raised |-> FALSE, data |-> data, file |-> cache_set(data, clock),
             requested |-> TRUE]

\* bool(v) for the values a response holds
Truthy(v) ==
    CASE v.kind = "none" -> FALSE
      [] v.kind = "int" -> v.val # 0
      [] v.kind = "str" -> v.val # ""
      [] OTHER -> Len(v.val) > 0

\* the same without the test of data[1]
HasRows_two_elements(data) == data.kind = "list" /\ Len(data.val) > 1

\* isinstance(data, list) and len(data) > 1 and data[1]
HasRows(data) == data.kind = "list" /\ Len(data.val) > 1 /\ Truthy(data.val[2])

\* d.get(key), None when the key is missing
DictGetOrNone(d, key) == IF DictHas(d, key) THEN DictGet(d, key) ELSE PyNone

\* (md[1][0].get("sourceNote") or "").replace("\n", " ").strip()
CleanNote(s) == CASE s = "WB\nnote " -> "WB note" [] OTHER -> s

\* the name and source note build_world_bank takes from the metadata
WbNameOf(md) ==
    IF HasRows(md) /\ Truthy(DictGetOrNone(md.val[2].val[1], "name"))
    THEN DictGetOrNone(md.val[2].val[1], "name").val ELSE ""
WbNoteOf(md) ==
    IF HasRows(md) /\ Truthy(DictGetOrNone(md.val[2].val[1], "sourceNote"))
    THEN CleanNote(DictGetOrNone(md.val[2].val[1], "sourceNote").val) ELSE ""

WB_COLUMNS ==
    <<PyStr("country"), PyStr("iso2c"), PyStr("year"), PyStr("indicator"), PyStr("value"),
      PyStr("unit")>>

\* md[1][0].get raises unless md[1] is a list that starts with a dict
MetaRaises(md) ==
    HasRows(md) /\ ~(md.val[2].kind = "list" /\ md.val[2].val[1].kind = "dict")

\* (... or "").replace raises when sourceNote is truthy and no string; wb_name
\* has been assigned by then
NoteRaises(md) ==
    /\ HasRows(md)
    /\ ~MetaRaises(md)
    /\ Truthy(DictGetOrNone(md.val[2].val[1], "sourceNote"))
    /\ DictGetOrNone(md.val[2].val[1], "sourceNote").kind # "str"

\* "for r in rows: r.get(...)" raises unless data[1] is a list of dicts whose
\* "country" is a dict or falsy
TidyRaises(data1) ==
    \/ data1.kind # "list"
    \/ \E i \in 1..Len(data1.val) :
          \/ data1.val[i].kind # "dict"
          \/ /\ Truthy(DictGetOrNone(data1.val[i], "country"))
             /\ DictGetOrNone(data1.val[i], "country").kind # "dict"

\* the same with iso2c read from the country object of the row
Tidy_response_code(rows, c, meta) ==
    DF(WB_COLUMNS,
       [i \in 1..Len(rows) |->
          LET country == DictGetOrNone(rows[i], "country") IN
          << IF Truthy(country) THEN DictGetOrNone(country, "value") ELSE PyNone,
             IF Truthy(country) THEN DictGetOrNone(country, "id") ELSE PyNone,
             DictGetOrNone(rows[i], "date"),
             PyStr(meta.code),
             DictGetOrNone(rows[i], "value"),
             PyStr(meta.unit) >>])

\* the tidy rows of one series: (r.get("country") or {}).get("value"), ...
Tidy(rows, c, meta) ==
    DF(WB_COLUMNS,
       [i \in 1..Len(rows) |->
          LET country == DictGetOrNone(rows[i], "country") IN
          << IF Truthy(country) THEN DictGetOrNone(country, "value") ELSE PyNone,
             PyStr(c),
             DictGetOrNone(rows[i], "date"),
             PyStr(meta.code),
             DictGetOrNone(rows[i], "value"),
             PyStr(meta.unit) >>])

WbIdle ==
    [pc |-> "idle", k |-> 1, c |-> 1, dictionary_rows |-> <<>>, manifest_entries |-> <<>>,
     errors |-> <<>>]

WbEmptyDir ==
    [files |-> [key \in {<<INDICATORS[k].code, c>> :
                            k \in 1..Len(INDICATORS), c \in Range(COUNTRIES)} |-> NoFile],
     dictionary |-> NoFile, manifest |-> NoFile, errors |-> NoFile, card |-> NoFile]

\* what the run in progress, or the last run, did: each fetch with the text it
\* consumed (the answer of the request, or the cache entry served)
WbNoLog == [ended |-> FALSE, fetches |-> <<>>, wrote |-> {}, run |-> 0]
WbFetch(what, code, c, requested, answer) ==
    [what |-> what, indicator |-> code, country |-> c, requested |-> requested,
     answer |-> answer]

WbError(stage, code, c) == [stage |-> stage, indicator |-> code, country |-> c]
\* ------------------------------------------------------------------
\* Robust HTTP: the session of _make_session and one call of http_get
\* ------------------------------------------------------------------

\* the largest CARIBDATA_HTTP_RETRIES the environment sets
MaxEnvRetries == 2

\* int(os.getenv("CARIBDATA_HTTP_RETRIES", "6"))
DefaultRetries == 6
EnvRetries == {DefaultRetries} \cup (0..MaxEnvRetries)

STATUS_FORCELIST == {429, 500, 502, 503, 504}

\* Retry(...) leaves respect_retry_after_header at its default (True): a
\* response of one of these statuses that carries a Retry-After header is
\* retried as well, while retries are left
RETRY_AFTER_STATUS_CODES == {413, 429, 503}

\* what one attempt of SESSION.get can meet
Response(status, retry_after) ==
    [kind |-> "response", status |-> status, retry_after |-> retry_after]
ConnectError == [kind |-> "connect_error", status |-> 0, retry_after |-> FALSE]
ReadTimeout == [kind |-> "read_timeout", status |-> 0, retry_after |-> FALSE]
NoAttempt == [kind |-> "none", status |-> 0, retry_after |-> FALSE]
HttpStatuses == {200, 404, 413, 429, 500, 502, 503, 504}
HttpOutcomes ==
    {ConnectError, ReadTimeout}
        \cup {Response(st, FALSE) : st \in HttpStatuses}
        \cup {Response(413, TRUE), Response(503, TRUE)}

\* Retry(total=retries, connect=retries, read=retries, status=retries)
MakeRetry(retries) ==
    [total |-> retries, connect |-> retries, read |-> retries, status |-> retries]

\* Retry.increment: every failure counts against total and against its own kind
Increment(retry, outcome) ==
    [total |-> retry.total - 1,
     connect |-> IF outcome.kind = "connect_error" THEN retry.connect - 1 ELSE retry.connect,
     read |-> IF outcome.kind = "read_timeout" THEN retry.read - 1 ELSE retry.read,
     status |-> IF outcome.kind = "response" THEN retry.status - 1 ELSE retry.status]

IsExhausted(retry) ==
    retry.total < 0 \/ retry.connect < 0 \/ retry.read < 0 \/ retry.status < 0

\* Retry.is_retry for a GET, which is one of allowed_methods
IsRetry(retry, response) ==
    \/ response.status \in STATUS_FORCELIST
    \/ /\ retry.total # 0
       /\ response.retry_after
       /\ response.status \in RETRY_AFTER_STATUS_CODES

\* r.raise_for_status() raises for a 4xx or 5xx status, never otherwise
raise_for_status_never(response) == FALSE
raise_for_status(response) == response.status >= 400 /\ response.status < 600

HttpIdle(retries) ==
    [pc |-> "idle", retries |-> retries, retry |-> MakeRetry(retries),
     sent |-> 0, last |-> NoAttempt]


(***************************************************************************)
(* The messy-dataset fetcher (fetch_messy.py): configuration and inputs    *)
(***************************************************************************)
\* a URL: the folder it lies in, and the name and extension of its last
\* path segment
Url(dir, name, ext) == [dir |-> dir, name |-> name, ext |-> ext]

\* re.I: the extensions compare in lower case
LowerExt(ext) == CASE ext = "XLSX" -> "xlsx" [] ext = "CSV" -> "csv" [] OTHER -> ext

\* re.search(r"\.(xlsx|xls|csv)(\?|$)", u, flags=re.I)
is_file_url(u) == LowerExt(u.ext) \in {"xlsx", "xls", "csv"}

\* an <a href> of a page: absolute, or relative to the folder of the page
Href(absolute, dir, name, ext) ==
    [absolute |-> absolute, dir |-> dir, name |-> name, ext |-> ext]

Item(slug, url, name, source) == [slug |-> slug, url |-> url, name |-> name, source |-> source]

\* messy.items of the configuration: a direct workbook, a page, a direct CSV
ITEMS ==
    << Item("census", Url("sib", "census", "XLSX"), "Census tables", "SIB"),
       Item("trade", Url("sib", "trade", ""), "Trade page", "SIB"),
       Item("rain", Url("met", "rain", "csv"), "Rainfall", "Met") >>

\* what a page holds: its links, in document order
Page(hrefs) == [kind |-> "page", hrefs |-> hrefs]
PageWithLink ==
    Page(<< Href(FALSE, "", "about", "html"), Href(FALSE, "", "trade2023", "xlsx"),
            Href(TRUE, "cdn", "old", "xlsx") >>)
\* the page links another workbook than it used to
PageMovedLink == Page(<< Href(TRUE, "cdn", "trade2024", "XLSX") >>)
PageNoLink == Page(<< Href(FALSE, "", "about", "html"), Href(TRUE, "cdn", "notes", "xls") >>)
PageNominal == PageWithLink
PageFaulty == { Raised, PageNoLink, PageMovedLink }

\* the body of a download
Bytes(of) == [kind |-> "bytes", of |-> of]
FileNominal(u) == Bytes(u)
FileFaulty == { Raised }

\* re.search(r"\.xlsx(\?|$)", href, flags=re.I)
IsXlsxHref(h) == LowerExt(h.ext) = "xlsx"

\* discover_xlsx_link: the first .xlsx link of the page, made absolute, or
\* None; page is what http_get gives for the page, Raised when it raises
discover_xlsx_link(page_url, page) ==
    IF page = Raised THEN PyNone
    ELSE IF \E k \in 1..Len(page.hrefs) : IsXlsxHref(page.hrefs[k])
    THEN LET k == CHOOSE j \in 1..Len(page.hrefs) :
                     /\ IsXlsxHref(page.hrefs[j])
                     /\ \A l \in 1..(j - 1) : ~IsXlsxHref(page.hrefs[l])
             h == page.hrefs[k]
         IN IF h.absolute THEN Url(h.dir, h.name, h.ext) ELSE Url(page_url.dir, h.name, h.ext)
    ELSE PyNone

\* pathlib.Path(unquote(urlparse(resolved).path)).name or f"{slug}.bin"
FileName(resolved, slug) ==
    IF resolved.name = "" /\ resolved.ext = "" THEN <<slug, "bin">>
    ELSE <<resolved.name, resolved.ext>>

\* the analysis chosen by the lower-cased file name
analysis_type(fn) ==
    CASE LowerExt(fn[2]) \in {"xlsx", "xls"} -> "excel"
      [] LowerExt(fn[2]) = "csv" -> "csv"
      [] OTHER -> "binary/other"

\* build_readme: the "## Included" lines, one per item given
build_readme(items) ==
    [k \in 1..Len(items) |->
        [name |-> items[k].name, source |-> items[k].source, slug |-> items[k].slug]]

\* raw: the files under raw/, as <<slug, file name>> -> content
MessyEmptyDir ==
    [raw |-> {}, manifest |-> NoFile, report |-> NoFile, errors |-> NoFile,
     card |-> NoFile, bundle |-> NoFile]


MessyIdle ==
    [pc |-> "idle", i |-> 1, generated_at |-> 0, manifest_items |-> <<>>,
     report_files |-> <<>>, errors |-> <<>>, ended |-> FALSE, fetched |-> <<>>,
     run |-> 0, before |-> MessyEmptyDir]

(***************************************************************************)
(* main and write_freshness                                                *)
(***************************************************************************)
\* the enabled flags of the world_bank and faostat_fbs sections
Config(wb_enabled, fao_enabled) == [wb_enabled |-> wb_enabled, fao_enabled |-> fao_enabled]
Configs == { Config(w, f) : w \in BOOLEAN, f \in BOOLEAN }

MainIdle == [pc |-> "idle", cfg |-> Config(TRUE, TRUE), parts |-> <<>>]
MainEmptyDir == [freshness |-> NoFile]

(***************************************************************************)
(* Inputs of the cache store specification                                 *)
(***************************************************************************)
CacheKeys == {"k1", "k2"}
TtlChoices == {0, 1}
BulkUrls == <<"mirror1", "mirror2">>

\* payloads handed to cache_set: JSON values, and Python values that
\* json.dumps accepts but that are no JSON values (a tuple, an int key)
Payloads ==
    { PyNone, PyInt(1), PyStr("a"),
      PyList(<<PyInt(1), PyStr("a")>>),
      PyTuple(<<PyInt(1), PyStr("a")>>),
      PyDict(<< <<PyStr("data"), PyList(<<PyInt(1)>>)>> >>),
      PyDict(<< <<PyInt(1), PyStr("a")>> >>) }

\* what json.loads can return: no tuple, and only string keys
RECURSIVE JsonNative(_)
JsonNative(v) ==
    CASE v.kind \in {"none", "int", "str"} -> TRUE
      [] v.kind = "list" -> \A i \in 1..Len(v.val) : JsonNative(v.val[i])
      [] v.kind = "dict" ->
            \A i \in 1..Len(v.val) :
                v.val[i][1].kind = "str" /\ JsonNative(v.val[i][2])
      [] OTHER -> FALSE

ZipBytes == {PyStr("zipA"), PyStr("zipB")}

NoCall == [op |-> "none"]

(***************************************************************************)
(* The cache store as a state machine                                      *)
(***************************************************************************)
InitCache ==
    /\ now = 0
    /\ cache = [k \in CacheKeys |-> NoFile]
    /\ bulkCache = [u \in {BulkUrls[i] : i \in 1..Len(BulkUrls)} |-> NoFile]
    /\ call = NoCall
    /\ lastSet = NoCall
    /\ faults = 0
    /\ fao = FaoIdle
    /\ faoDir = FaoEmptyDir
    /\ faoLog = FaoNoLog
    /\ wb = WbIdle
    /\ wbDir = WbEmptyDir
    /\ wbLog = WbNoLog
    /\ main = MainIdle
    /\ mainDir = MainEmptyDir
    /\ httpCall = HttpIdle(DefaultRetries)
    /\ messy = MessyIdle
    /\ messyDir = MessyEmptyDir

\* time passes, between calls on the cache and between runs of a build
Tick ==
    /\ fao.pc = "idle"
    /\ wb.pc = "idle"
    /\ now < MaxClock
    /\ now' = now + 1
    /\ lastSet' = NoCall
    /\ UNCHANGED <<cache, bulkCache, call, faults, faoVars, wbVars, mainVars, httpCall, messyVars>>

CacheSet ==
    \E k \in CacheKeys, v \in Payloads :
        /\ cache' = [cache EXCEPT ![k] = cache_set(v, now)]
        /\ call' = [op |-> "set", key |-> k, value |-> v, at |-> now]
        /\ lastSet' = call'
        /\ UNCHANGED <<now, bulkCache, faults, faoVars, wbVars, mainVars, httpCall, messyVars>>

CacheGet ==
    \E k \in CacheKeys, ttl \in TtlChoices :
        /\ call' = [op |-> "get", key |-> k, ttl |-> ttl, at |-> now,
                    after |-> lastSet,
                    ret |-> cache_get(cache[k], now, ttl)]
        /\ lastSet' = NoCall
        /\ UNCHANGED <<now, cache, bulkCache, faults, faoVars, wbVars, mainVars, httpCall, messyVars>>

\* an entry file is left truncated (an interrupted write)
CacheCorrupt ==
    \E k \in CacheKeys :
        /\ Exists(cache[k])
        /\ cache[k].val # Garbage
        /\ cache' = [cache EXCEPT ![k] = File(Garbage, now)]
        /\ call' = [op |-> "corrupt", key |-> k, at |-> now]
        /\ lastSet' = NoCall
        /\ UNCHANGED <<now, bulkCache, faults, faoVars, wbVars, mainVars, httpCall, messyVars>>

Download ==
    \E u \in DOMAIN bulkCache, ttl \in TtlChoices, http \in ZipBytes \cup {Raised} :
        LET r == download_with_cache(bulkCache[u], now, ttl, http) IN
        /\ bulkCache' = [bulkCache EXCEPT ![u] = r[2]]
        /\ call' = [op |-> "download", key |-> u, ttl |-> ttl, at |-> now,
                    seen |-> bulkCache[u],
                    http |-> r[3],
                    ret |-> r[1]]
        /\ lastSet' = NoCall
        /\ UNCHANGED <<now, cache, faults, faoVars, wbVars, mainVars, httpCall, messyVars>>

NextCache == Tick \/ CacheSet \/ CacheGet \/ CacheCorrupt

SpecCache == InitCache /\ [][NextCache]_vars

NextZip == Tick \/ Download

SpecZip == InitCache /\ [][NextZip]_vars

(***************************************************************************)
(* The cached fetches, called on one cache entry and one archive           *)
(***************************************************************************)
\* what the server may answer a JSON request with
FetchAnswers ==
    { Raised, Garbage, JsonDumps(PyNone),
      JsonDumps(PyList(<<PyInt(1)>>)),
      JsonDumps(PyDict(<< <<PyStr("data"), PyList(<<PyInt(1)>>)>> >>)) }

InitFetch ==
    /\ now = 0
    /\ cache = [k \in {"k1"} |-> NoFile]
    /\ bulkCache = [u \in {BulkUrls[1]} |-> NoFile]
    /\ call = NoCall
    /\ lastSet = NoCall
    /\ faults = 0
    /\ fao = FaoIdle
    /\ faoDir = FaoEmptyDir
    /\ faoLog = FaoNoLog
    /\ wb = WbIdle
    /\ wbDir = WbEmptyDir
    /\ wbLog = WbNoLog
    /\ main = MainIdle
    /\ mainDir = MainEmptyDir
    /\ httpCall = HttpIdle(DefaultRetries)
    /\ messy = MessyIdle
    /\ messyDir = MessyEmptyDir

\* the record of one call: the entry it found, the answer the server had,
\* whether the request was issued, what was returned
FetchCall(op, k, ttl, seen, http, requested, raised, ret) ==
    [op |-> op, key |-> k, ttl |-> ttl, at |-> now, seen |-> seen, answer |-> http,
     requested |-> requested, raised |-> raised, ret |-> ret]

FetchSeries ==
    \E k \in DOMAIN cache, ttl \in TtlChoices, http \in FetchAnswers :
        LET r == wb_fetch_series(cache[k], now, ttl, http) IN
        /\ cache' = [cache EXCEPT ![k] = r.file]
        /\ call' = FetchCall("wb_fetch_series", k, ttl, cache[k], http,
                             r.requested, r.raised, r.data)
        /\ UNCHANGED <<now, bulkCache, lastSet, faults, faoVars, wbVars, mainVars, httpCall, messyVars>>

FetchMeta ==
    \E k \in DOMAIN cache, ttl \in TtlChoices, http \in FetchAnswers :
        LET r == wb_fetch_indicator_meta(cache[k], now, ttl, http) IN
        /\ cache' = [cache EXCEPT ![k] = r.file]
        /\ call' = FetchCall("wb_fetch_indicator_meta", k, ttl, cache[k], http,
                             r.requested, r.raised, r.data)
        /\ UNCHANGED <<now, bulkCache, lastSet, faults, faoVars, wbVars, mainVars, httpCall, messyVars>>

FetchDomain ==
    \E k \in DOMAIN cache, ttl \in TtlChoices, http \in FetchAnswers :
        LET r == fao_fetch_domain(cache[k], now, ttl, http) IN
        /\ cache' = [cache EXCEPT ![k] = r.file]
        /\ call' = FetchCall("fao_fetch_domain", k, ttl, cache[k], http,
                             r.requested, r.raised, r.rows)
        /\ UNCHANGED <<now, bulkCache, lastSet, faults, faoVars, wbVars, mainVars, httpCall, messyVars>>

FetchZip ==
    \E u \in DOMAIN bulkCache, ttl \in TtlChoices, http \in ZipBytes \cup {Raised} :
        LET r == download_with_cache(bulkCache[u], now, ttl, http) IN
        /\ bulkCache' = [bulkCache EXCEPT ![u] = r[2]]
        /\ call' = FetchCall("download_with_cache", u, ttl, bulkCache[u], http,
                             r[3], FALSE, r[1])
        /\ UNCHANGED <<now, cache, lastSet, faults, faoVars, wbVars, mainVars, httpCall, messyVars>>

\* an entry file is left truncated (an interrupted write)
FetchCorrupt ==
    \E k \in DOMAIN cache :
        /\ Exists(cache[k])
        /\ cache[k].val # Garbage
        /\ cache' = [cache EXCEPT ![k] = File(Garbage, now)]
        /\ call' = NoCall
        /\ UNCHANGED <<now, bulkCache, lastSet, faults, faoVars, wbVars, mainVars, httpCall, messyVars>>

NextFetch == Tick \/ FetchSeries \/ FetchMeta \/ FetchDomain \/ FetchZip \/ FetchCorrupt

SpecFetch == InitFetch /\ [][NextFetch]_vars

(***************************************************************************)
(* Claims on the cached fetches                                            *)
(***************************************************************************)
JsonFetches == {"wb_fetch_series", "wb_fetch_indicator_meta", "fao_fetch_domain"}

\* the entry the call found is not expired under the ttl of the call
Unexpired(f, clock, ttl) == Exists(f) /\ (ttl > 0 => clock - f.mtime <= ttl)

Parseable(f) == Exists(f) /\ JsonLoads(f.val) # Raised

\* the cache entry of the key of the call as it is now
EntryNow == IF call.op \in JsonFetches THEN cache[call.key] ELSE bulkCache[call.key]

\* C26 (as stated): with an unexpired, parseable entry for the key the three
\* fetches return the cached payload, issue no HTTP request and do not
\* rewrite the entry; a request is issued only on a cache miss.
C26_CachedEntryServed ==
    (/\ call.op \in JsonFetches /\ call.at = now
     /\ Unexpired(call.seen, call.at, call.ttl)
     /\ Parseable(call.seen)) =>
            /\ ~call.requested
            /\ cache[call.key] = call.seen
            /\ call.ret = JsonLoads(call.seen.val)

\* what a fetch returns for a payload: fao_fetch_domain its rows
ReturnedFor(op, payload) ==
    IF op = "fao_fetch_domain" THEN normalize_fao_payload(payload) ELSE payload

\* C26 (amended): with an unexpired, parseable entry whose payload is not
\* null the three fetches issue no HTTP request, do not rewrite the entry
\* and return the cached payload (fao_fetch_domain: the rows of the cached
\* payload); a request is issued only without such an entry.
C26_CachedNonNullEntryServed ==
    call.op \in JsonFetches /\ call.at = now =>
        LET hit == /\ Unexpired(call.seen, call.at, call.ttl)
                   /\ Parseable(call.seen)
                   /\ JsonLoads(call.seen.val) # PyNone
        IN /\ hit => /\ ~call.requested
                     /\ cache[call.key] = call.seen
                     /\ call.ret = ReturnedFor(call.op, JsonLoads(call.seen.val))
           /\ call.requested => ~hit

\* fao_fetch_domain served the rows of an entry written an hour earlier
C26_Witness ==
    /\ call.op = "fao_fetch_domain"
    /\ call.at = now
    /\ call.ttl = 1
    /\ call.seen.kind = "file" /\ call.seen.mtime = now - 1
    /\ ~call.requested
    /\ call.ret = <<PyInt(1)>>
    /\ cache[call.key] = call.seen

\* C27: when http_get raises inside one of the four fetches, no cache
\* entry is created or modified, so that the next call with the same key
\* issues the request again.
C27_FailedFetchLeavesCache ==
    (call.op \in JsonFetches \cup {"download_with_cache"}
        /\ call.requested /\ call.answer = Raised) =>
        /\ call.at = now => EntryNow = call.seen
        /\ IF call.op \in JsonFetches
           THEN cache_get(cache[call.key], now, call.ttl) = PyNone
           ELSE ~ZipServed(bulkCache[call.key], now, call.ttl)

\* the request of _download_with_cache failed while an expired archive was
\* stored: the archive is still there
C27_Witness ==
    /\ call.op = "download_with_cache"
    /\ call.requested /\ call.answer = Raised
    /\ call.at = now
    /\ Exists(call.seen)
    /\ bulkCache[call.key] = call.seen

(***************************************************************************)
(* build_faostat_fbs as a state machine: one action per loop iteration     *)
(***************************************************************************)
IsRaised(x) == "kind" \in DOMAIN x /\ x.kind = "raise"

\* the output files' modification times are never read
OutFile(content) == File(content, 0)

\* a card written on every run
write_card_always(card) == OutFile("card")

\* "if not card.exists(): card.write_text(...)": the file afterwards
write_card(card) == IF Exists(card) THEN card ELSE OutFile("card")

InitFao ==
    /\ now = 0
    /\ cache = [k \in FaoKeys |-> NoFile]
    /\ bulkCache = [u \in Range(BulkUrls) |-> NoFile]
    /\ call = NoCall
    /\ lastSet = NoCall
    /\ faults = 0
    /\ fao = FaoIdle
    /\ faoDir = FaoEmptyDir
    /\ faoLog = FaoNoLog
    /\ wb = WbIdle
    /\ wbDir = WbEmptyDir
    /\ wbLog = WbNoLog
    /\ main = MainIdle
    /\ mainDir = MainEmptyDir
    /\ httpCall = HttpIdle(DefaultRetries)
    /\ messy = MessyIdle
    /\ messyDir = MessyEmptyDir

\* entry of build_faostat_fbs: fresh manifest_entries and errors
FaoStart ==
    /\ fao.pc = "idle"
    /\ fao' = [FaoIdle EXCEPT !.pc = "api"]
    /\ faoLog' = [FaoNoLog EXCEPT
                    !.hadFile = {c \in Range(COUNTRIES_ISO3) : Exists(faoDir.files[c])},
                    !.before = faoDir]
    /\ UNCHANGED <<cacheVars, faults, faoDir, wbVars, mainVars, httpCall, messyVars>>

\* what an upstream may answer: the nominal response, or another one while
\* the behaviour has faults left
Answers(nominal, faulty, asked) ==
    IF asked /\ faults < MaxFaults THEN {nominal} \cup faulty ELSE {nominal}

\* one iteration of "for dom in domains" (API step)
FaoApiDomain ==
    /\ fao.pc = "api"
    /\ fao.d <= Len(DOMAINS)
    /\ LET iso3 == COUNTRIES_ISO3[fao.i]
           dom == DOMAINS[fao.d]
           key == FaoKey(dom, iso3)
           miss == cache_get(cache[key], now, CacheTtlHours) = PyNone
       IN \E http \in Answers(ApiNominal(iso3), ApiFaulty(iso3), miss) :
          LET r == fao_fetch_domain(cache[key], now, CacheTtlHours, http)
              errs == IF r.raised
                      THEN Append(fao.errors, ErrorRecord("fao_api_fetch", iso3, dom, ""))
                      ELSE fao.errors
              df == std_cols(DataFrameOf(r.rows))
              part == filter_country_elements(df, iso3, ELEMENTS)
              tagged == WithColumn(WithColumn(part, "_source", PyStr("api")),
                                   "_domain", PyStr(dom))
          IN /\ cache' = [cache EXCEPT ![key] = r.file]
             /\ faults' = IF r.requested /\ http # ApiNominal(iso3) THEN faults + 1 ELSE faults
             /\ faoLog' = [faoLog EXCEPT !.api = Append(@,
                              [country_iso3 |-> iso3, domain |-> dom,
                               requested |-> r.requested,
                               raised |-> r.raised,
                               rows |-> Len(r.rows),
                               notJson |-> r.requested /\ http = Garbage,
                               noArea |-> ~IsRaised(df) /\ ~IsEmpty(df)
                                          /\ ~HasCol(df, "area_code") /\ ~HasCol(df, "area")])]
             /\ fao' =
                  IF Len(r.rows) = 0
                  THEN [fao EXCEPT !.errors = errs, !.d = @ + 1]
                  ELSE IF IsRaised(df)
                  THEN \* the exception leaves the loop over the countries
                       [fao EXCEPT !.api_got_any = TRUE, !.pc = "need_bulk",
                                   !.errors = Append(errs, ErrorRecord("fao_api_top", "", "", ""))]
                  ELSE IF IsEmpty(part)
                  THEN [fao EXCEPT !.api_got_any = TRUE, !.d = @ + 1]
                  ELSE [fao EXCEPT !.api_got_any = TRUE, !.d = @ + 1,
                                   !.combined = Append(@, tagged)]
    /\ UNCHANGED <<now, bulkCache, call, lastSet, faoDir, wbVars, mainVars, httpCall, messyVars>>

\* the end of one iteration of "for iso3 in countries_iso3": if combined
FaoApiWrite ==
    /\ fao.pc = "api"
    /\ fao.d > Len(DOMAINS)
    /\ LET iso3 == COUNTRIES_ISO3[fao.i]
           kept == KeepCols(Concat(fao.combined), OUT_COLUMNS)
           out_df == sort_values(kept, <<"_domain", "item", "element", "year">>)
           next == IF fao.i = Len(COUNTRIES_ISO3)
                   THEN [fao EXCEPT !.pc = "need_bulk", !.combined = <<>>]
                   ELSE [fao EXCEPT !.i = @ + 1, !.d = 1, !.combined = <<>>]
       IN IF Len(fao.combined) > 0
          THEN /\ faoDir' = [faoDir EXCEPT !.files[iso3] = OutFile(out_df)]
               /\ fao' = [next EXCEPT !.manifest_entries =
                                    Append(@, ManifestEntry(iso3, out_df, now, ""))]
               /\ faoLog' = [faoLog EXCEPT !.apiWrote = @ \cup {iso3}]
          ELSE /\ fao' = next
               /\ UNCHANGED <<faoDir, faoLog>>
    /\ UNCHANGED <<cacheVars, faults, wbVars, mainVars, httpCall, messyVars>>

\* a need_bulk_for of every configured country
NeedBulkFor_all == COUNTRIES_ISO3

\* need_bulk_for: the countries with no file in the output folder
NeedBulkFor ==
    SelectSeqBy(COUNTRIES_ISO3,
                [k \in 1..Len(COUNTRIES_ISO3) |-> ~Exists(faoDir.files[COUNTRIES_ISO3[k]])])

FaoNeedBulk ==
    /\ fao.pc = "need_bulk"
    /\ fao' = IF Len(NeedBulkFor) > 0
              THEN [fao EXCEPT !.pc = "bulk", !.need_bulk_for = NeedBulkFor]
              ELSE [fao EXCEPT !.pc = "wrapup", !.need_bulk_for = NeedBulkFor]
    /\ UNCHANGED <<cacheVars, faults, faoDir, faoLog, wbVars, mainVars, httpCall, messyVars>>

\* one iteration of "for url in bulk_urls", and what follows the loop
FaoBulkMirror ==
    /\ fao.pc = "bulk"
    /\ LET url == BulkUrls[fao.u]
           asked == ~ZipServed(bulkCache[url], now, CacheTtlHours)
       IN \E http \in Answers(ZipNominal, ZipFaulty, asked) :
          LET dl == download_with_cache(bulkCache[url], now, CacheTtlHours, http)
              b == dl[1]
              df == IF b = PyNone THEN EmptyDF ELSE read_bulk_zip_to_df(b)
              std == IF IsRaised(df) THEN df ELSE std_cols(df)
              raised == IsRaised(df) \/ (~IsEmpty(df) /\ IsRaised(std))
              won == b # PyNone /\ ~raised /\ ~IsEmpty(df)
              errs == IF raised
                      THEN Append(fao.errors, ErrorRecord("fao_bulk_download", "", "", url))
                      ELSE fao.errors
          IN /\ bulkCache' = [bulkCache EXCEPT ![url] = dl[2]]
             /\ faults' = IF dl[3] /\ http # ZipNominal THEN faults + 1 ELSE faults
             /\ faoLog' = [faoLog EXCEPT !.mirrors = Append(@,
                              [url |-> url, requested |-> dl[3], answer |-> b,
                               transportFailed |-> dl[3] /\ http = Raised,
                               noCsv |-> b # PyNone /\ b.kind = "zip"
                                           /\ choose_csv_in_zip(b.val) = 0,
                               won |-> won])]
             /\ fao' =
                  IF won
                  THEN [fao EXCEPT !.pc = "filter", !.errors = errs, !.bulk_df = std,
                                   !.last_used_url = url]
                  ELSE IF fao.u < Len(BulkUrls)
                  THEN [fao EXCEPT !.errors = errs, !.u = @ + 1]
                  ELSE [fao EXCEPT !.pc = "wrapup",
                                   !.errors = Append(errs,
                                       ErrorRecord("fao_bulk_all_failed", "", "", ""))]
    /\ UNCHANGED <<now, cache, call, lastSet, faoDir, wbVars, mainVars, httpCall, messyVars>>

\* one iteration of "for iso3 in need_bulk_for"
FaoBulkFilter ==
    /\ fao.pc = "filter"
    /\ LET iso3 == fao.need_bulk_for[fao.b]
           part == filter_country_elements(fao.bulk_df, iso3, ELEMENTS)
           tagged == WithColumn(WithColumn(part, "_source", PyStr("bulk")),
                                "_domain", PyStr("FBS_BULK"))
           out_df == sort_values(KeepCols(tagged, OUT_COLUMNS), <<"item", "element", "year">>)
           next == IF fao.b = Len(fao.need_bulk_for)
                   THEN [fao EXCEPT !.pc = "wrapup"]
                   ELSE [fao EXCEPT !.b = @ + 1]
       IN IF IsEmpty(part)
          THEN /\ fao' = next
               /\ UNCHANGED <<faoDir, faoLog>>
          ELSE /\ faoDir' = [faoDir EXCEPT !.files[iso3] = OutFile(out_df)]
               /\ fao' = [next EXCEPT !.manifest_entries =
                                    Append(@, ManifestEntry(iso3, out_df, now, fao.last_used_url))]
               /\ faoLog' = [faoLog EXCEPT !.bulkWrote = @ \cup {iso3}]
    /\ UNCHANGED <<cacheVars, faults, wbVars, mainVars, httpCall, messyVars>>

\* "Wrap up": the manifest, _errors.json if errors, the card if missing
FaoWrapUp ==
    /\ fao.pc = "wrapup"
    /\ faoDir' = [faoDir EXCEPT
                    !.manifest = OutFile([generated_at |-> now, items |-> fao.manifest_entries]),
                    !.errors = IF Len(fao.errors) > 0 THEN OutFile(fao.errors) ELSE @,
                    !.card = write_card(@)]
    /\ fao' = [fao EXCEPT !.pc = "idle"]
    /\ faoLog' = [faoLog EXCEPT !.ended = TRUE]
    /\ UNCHANGED <<cacheVars, faults, wbVars, mainVars, httpCall, messyVars>>

NextFao ==
    \/ Tick
    \/ FaoStart
    \/ FaoApiDomain
    \/ FaoApiWrite
    \/ FaoNeedBulk
    \/ FaoBulkMirror
    \/ FaoBulkFilter
    \/ FaoWrapUp

SpecFao == InitFao /\ [][NextFao]_vars

\* the file the API step writes for a country whose every domain answered
\* with the nominal rows
ApiTable(iso3) ==
    LET tagged(dom) ==
            WithColumn(WithColumn(
                filter_country_elements(
                    std_cols(DataFrameOf(normalize_fao_payload(ApiData(iso3)))), iso3, ELEMENTS),
                "_source", PyStr("api")), "_domain", PyStr(dom))
    IN  sort_values(KeepCols(Concat([d \in 1..Len(DOMAINS) |-> tagged(DOMAINS[d])]), OUT_COLUMNS),
                    <<"_domain", "item", "element", "year">>)

\* a run over the output folder of an earlier run that wrote the first
\* country's file from the API, with the cache of that run gone
InitFaoRerun ==
    /\ now = 0
    /\ cache = [k \in FaoKeys |-> NoFile]
    /\ bulkCache = [u \in Range(BulkUrls) |-> NoFile]
    /\ call = NoCall
    /\ lastSet = NoCall
    /\ faults = 0
    /\ fao = FaoIdle
    /\ faoDir = [FaoEmptyDir EXCEPT
                    !.files[COUNTRIES_ISO3[1]] = OutFile(ApiTable(COUNTRIES_ISO3[1])),
                    !.manifest = OutFile([generated_at |-> 0,
                                          items |-> <<ManifestEntry(COUNTRIES_ISO3[1],
                                                       ApiTable(COUNTRIES_ISO3[1]), 0, "")>>]),
                    !.card = OutFile("card")]
    /\ faoLog = FaoNoLog
    /\ wb = WbIdle
    /\ wbDir = WbEmptyDir
    /\ wbLog = WbNoLog
    /\ main = MainIdle
    /\ mainDir = MainEmptyDir
    /\ httpCall = HttpIdle(DefaultRetries)
    /\ messy = MessyIdle
    /\ messyDir = MessyEmptyDir

SpecFaoRerun == InitFaoRerun /\ [][NextFao]_vars

\* a run that finds in the cache, for the first country and domain, a
\* response of an earlier hour whose table has no area column; one upstream
\* fault is left to the run
InitFaoCached ==
    /\ now = 0
    /\ cache = [k \in FaoKeys |->
                   IF k = FaoKey(DOMAINS[1], COUNTRIES_ISO3[1])
                   THEN cache_set(ApiNoArea, 0) ELSE NoFile]
    /\ bulkCache = [u \in Range(BulkUrls) |-> NoFile]
    /\ call = NoCall
    /\ lastSet = NoCall
    /\ faults = MaxFaults - 1
    /\ fao = FaoIdle
    /\ faoDir = FaoEmptyDir
    /\ faoLog = FaoNoLog
    /\ wb = WbIdle
    /\ wbDir = WbEmptyDir
    /\ wbLog = WbNoLog
    /\ main = MainIdle
    /\ mainDir = MainEmptyDir
    /\ httpCall = HttpIdle(DefaultRetries)
    /\ messy = MessyIdle
    /\ messyDir = MessyEmptyDir

SpecFaoCached == InitFaoCached /\ [][NextFao]_vars

(***************************************************************************)
(* Claims on build_faostat_fbs                                             *)
(***************************************************************************)
Countries == Range(COUNTRIES_ISO3)

\* a run of build_faostat_fbs has returned and none has started since
FaoRunEnded == fao.pc = "idle" /\ faoLog.ended

\* the API step of the current run is over
FaoApiOver == fao.pc \in {"need_bulk", "bulk", "filter", "wrapup"} \/ FaoRunEnded

\* need_bulk_for of the current run has been computed
FaoBulkDecided == fao.pc \in {"bulk", "filter", "wrapup"} \/ FaoRunEnded

HasError(stage, c, dom, url) ==
    \E k \in 1..Len(fao.errors) :
        fao.errors[k] = ErrorRecord(stage, c, dom, url)

Attempted(c, dom) ==
    \E k \in 1..Len(faoLog.api) :
        faoLog.api[k].country_iso3 = c /\ faoLog.api[k].domain = dom

\* fao_fetch_domain was called for every domain of c and raised each time
ApiAllRaised(c) ==
    \A dom \in Range(DOMAINS) :
        \E k \in 1..Len(faoLog.api) :
            /\ faoLog.api[k].country_iso3 = c
            /\ faoLog.api[k].domain = dom
            /\ faoLog.api[k].raised

\* row r of table df is a row of country c: by area code, or by area name
\* when the table has no numeric area code
RowIsOf(df, r, c) ==
    IF HasCol(df, "area_code") /\ IsNumericCol(df, "area_code")
    THEN r[ColIndex(df, "area_code")].val = M49_BY_ISO3(c)
    ELSE /\ HasCol(df, "area")
         /\ StripLower(CellStr(r[ColIndex(df, "area")])) = StripLower(NAME_BY_ISO3(c))

\* row r passes the configured element list
ElementConfigured(df, r) ==
    \/ Len(ELEMENTS) = 0
    \/ ~HasCol(df, "element")
    \/ CellStr(r[ColIndex(df, "element")]) \in Range(ELEMENTS)

\* a mirror yielded a non-empty table (the one the run kept) with rows of c
BulkHasRowsOf(c) ==
    /\ ~IsEmpty(fao.bulk_df)
    /\ \E i \in 1..Len(fao.bulk_df.rows) : RowIsOf(fao.bulk_df, fao.bulk_df.rows[i], c)

BulkHasUsableRowsOf(c) ==
    /\ ~IsEmpty(fao.bulk_df)
    /\ \E i \in 1..Len(fao.bulk_df.rows) :
          /\ RowIsOf(fao.bulk_df, fao.bulk_df.rows[i], c)
          /\ ElementConfigured(fao.bulk_df, fao.bulk_df.rows[i])

AllRowsFrom(f, source) ==
    LET df == f.val IN
    /\ HasCol(df, "_source")
    /\ \A i \in 1..Len(df.rows) : df.rows[i][ColIndex(df, "_source")] = PyStr(source)

BulkFileAndApiError(c) ==
    /\ Exists(faoDir.files[c])
    /\ AllRowsFrom(faoDir.files[c], "bulk")
    /\ \E k \in 1..Len(fao.errors) :
          fao.errors[k].stage = "fao_api_fetch" /\ fao.errors[k].country_iso3 = c

\* C1 (amended): starting from an output folder with no file for the country,
\* if every API attempt for it raised and a bulk mirror yields a non-empty
\* table with rows of that country whose element is in the configured element
\* list, then at the end of the run the country's file exists, all its rows
\* have _source = "bulk", and the errors hold a record of the failed API
\* attempt of that country.
C1_BulkFallbackAfterApiFailure ==
    FaoRunEnded =>
        \A c \in Countries :
            (c \notin faoLog.hadFile /\ ApiAllRaised(c) /\ BulkHasUsableRowsOf(c))
                => BulkFileAndApiError(c)

\* C1 as stated: rows of the country in the bulk table are enough.
C1_BulkFallbackAnyCountryRows ==
    FaoRunEnded =>
        \A c \in Countries :
            (c \notin faoLog.hadFile /\ ApiAllRaised(c) /\ BulkHasRowsOf(c))
                => BulkFileAndApiError(c)

C1_Witness ==
    /\ FaoRunEnded
    /\ "BLZ" \notin faoLog.hadFile
    /\ ApiAllRaised("BLZ")
    /\ BulkHasUsableRowsOf("BLZ")
    /\ BulkFileAndApiError("BLZ")
    /\ fao.last_used_url = BulkUrls[2]

\* C2: the countries the bulk step is attempted for are exactly the
\* configured countries for which the API step of this run wrote no file
\* (stated for the runs whose API loop ran to its end).
C2_BulkCandidatesAreThisRunsGaps ==
    (FaoBulkDecided /\ ~HasError("fao_api_top", "", "", ""))
        => Range(fao.need_bulk_for) = Countries \ faoLog.apiWrote

\* C4: an error in one dimension does not stop the later dimensions: once
\* the API step is over, every country x domain was attempted.
C4_EveryDimensionAttempted ==
    FaoApiOver => \A c \in Countries, dom \in Range(DOMAINS) : Attempted(c, dom)

\* C5: every failed fetch or parse step leaves an error record: a failed
\* mirror download, an API body that is no JSON, an archive without a CSV.
C5_EveryFailureRecorded ==
    FaoRunEnded =>
        /\ \A k \in 1..Len(faoLog.mirrors) :
              (faoLog.mirrors[k].transportFailed \/ faoLog.mirrors[k].noCsv) =>
                  \/ HasError("fao_bulk_download", "", "", faoLog.mirrors[k].url)
                  \/ HasError("fao_bulk_all_failed", "", "", "")
        /\ \A k \in 1..Len(faoLog.api) :
              faoLog.api[k].notJson =>
                  \E e \in 1..Len(fao.errors) :
                      /\ fao.errors[e].country_iso3 = faoLog.api[k].country_iso3
                      /\ fao.errors[e].domain = faoLog.api[k].domain

\* C6: _errors.json exists iff the most recent run recorded an error, and
\* then holds exactly that run's error list.
C6_ErrorsFileIsLastRuns ==
    FaoRunEnded =>
        /\ Exists(faoDir.errors) <=> Len(fao.errors) > 0
        /\ Exists(faoDir.errors) => faoDir.errors.val = fao.errors

\* C10: for a country that needs the fallback, if all mirrors fail or the
\* bulk table has no rows for it after filtering, an aggregate error is
\* recorded and the run writes no file for it.
C10_NoBulkDataIsAnError ==
    FaoRunEnded =>
        \A k \in 1..Len(fao.need_bulk_for) :
            LET c == fao.need_bulk_for[k] IN
            (IsEmpty(fao.bulk_df)
                \/ IsEmpty(filter_country_elements(fao.bulk_df, c, ELEMENTS)))
            => /\ HasError("fao_bulk_all_failed", "", "", "")
               /\ c \notin faoLog.bulkWrote
               /\ c \notin faoLog.apiWrote

\* the download of the mirror succeeded and its parsed table is non-empty
MirrorUsable(e) ==
    /\ e.answer # PyNone
    /\ ~IsRaised(read_bulk_zip_to_df(e.answer))
    /\ ~IsEmpty(read_bulk_zip_to_df(e.answer))

\* the manifest entries of the files the bulk step wrote
BulkManifestEntries ==
    { n \in 1..Len(fao.manifest_entries) :
         fao.manifest_entries[n].country_iso3 \in faoLog.bulkWrote }

\* C11: the mirrors are tried in list order; the first whose download
\* succeeds with a non-empty table wins: none after it is tried, all before
\* it failed or were empty, and every bulk manifest entry records it.
C11_FirstUsableMirrorWins ==
    LET log == faoLog.mirrors IN
    /\ \A k \in 1..Len(log) :
          /\ log[k].url = BulkUrls[k]
          /\ MirrorUsable(log[k]) => (k = Len(log) /\ fao.last_used_url = log[k].url)
    /\ (FaoRunEnded /\ Len(fao.need_bulk_for) > 0
            /\ \A k \in 1..Len(log) : ~MirrorUsable(log[k]))
          => (Len(log) = Len(BulkUrls) /\ faoLog.bulkWrote = {})
    /\ \A n \in BulkManifestEntries :
          /\ Len(log) > 0
          /\ MirrorUsable(log[Len(log)])
          /\ fao.manifest_entries[n].bulk_url = log[Len(log)].url

\* the first mirror failed, the second won and a file was written from it
C11_Witness ==
    /\ FaoRunEnded
    /\ Len(faoLog.mirrors) = 2
    /\ ~MirrorUsable(faoLog.mirrors[1])
    /\ MirrorUsable(faoLog.mirrors[2])
    /\ BulkManifestEntries # {}
    /\ \A n \in BulkManifestEntries : fao.manifest_entries[n].bulk_url = BulkUrls[2]

\* the run came after an earlier run and took every response from the cache
SecondRunOnWarmCache ==
    /\ FaoRunEnded
    /\ Exists(faoLog.before.manifest)
    /\ \A k \in 1..Len(faoLog.api) : ~faoLog.api[k].requested
    /\ \A k \in 1..Len(faoLog.mirrors) : ~faoLog.mirrors[k].requested

\* the items of a manifest without their timestamps
ItemsOf(manifest) ==
    { [path |-> manifest.val.items[n].path,
       country_iso3 |-> manifest.val.items[n].country_iso3,
       rows |-> manifest.val.items[n].rows] : n \in 1..Len(manifest.val.items) }

CsvsAsBefore == \A c \in Countries : faoDir.files[c] = faoLog.before.files[c]

\* C12: a second run on a warm, unexpired cache leaves every country file
\* as the first run left it and writes a manifest with the same items, also
\* for the countries whose file came from the bulk fallback.
C12_SecondRunSameOutput ==
    SecondRunOnWarmCache =>
        /\ CsvsAsBefore
        /\ ItemsOf(faoDir.manifest) = ItemsOf(faoLog.before.manifest)

\* the key of a row: its cells in the columns of (_domain, item, element,
\* year) that the table has
TupleColumns == <<"_domain", "item", "element", "year">>
KeyOf(df, row) ==
    LET present == SelectSeqBy(TupleColumns,
                               [k \in 1..Len(TupleColumns) |-> HasCol(df, TupleColumns[k])])
    IN  [k \in 1..Len(present) |-> CellKey(row[ColIndex(df, present[k])])]

RECURSIVE TupleLeq(_, _)
TupleLeq(a, b) ==
    \/ Len(a) = 0
    \/ a[1] < b[1]
    \/ a[1] = b[1] /\ TupleLeq(Tail(a), Tail(b))

InTupleOrder(df) ==
    \A k \in 1..(Len(df.rows) - 1) :
        TupleLeq(KeyOf(df, df.rows[k]), KeyOf(df, df.rows[k + 1]))

\* C15: every country file that build_faostat_fbs has written, by the API
\* step or by the bulk step, has its rows in non-decreasing order of
\* (_domain, item, element, year), restricted to the columns it has.
C15_CountryFilesSorted ==
    \A iso3 \in Countries :
        Exists(faoDir.files[iso3]) => InTupleOrder(faoDir.files[iso3].val)

\* one run wrote a file of both domains from the API and a file of several
\* rows from the bulk table, both from rows that arrived out of order
C15_Witness ==
    /\ FaoRunEnded
    /\ \E a \in faoLog.apiWrote, b \in faoLog.bulkWrote :
          /\ Len(faoDir.files[a].val.rows) = 4
          /\ Len(faoDir.files[b].val.rows) = 2
          /\ HasCol(faoDir.files[b].val, "_domain")

\* fao_fetch_domain was called for every domain of c in this run and
\* returned an empty list each time
ApiReturnedEmptyList(c) ==
    \A dom \in Range(DOMAINS) :
        \E k \in 1..Len(faoLog.api) :
            /\ faoLog.api[k].country_iso3 = c
            /\ faoLog.api[k].domain = dom
            /\ ~faoLog.api[k].raised
            /\ faoLog.api[k].rows = 0

\* a mirror gave this run a bulk table with a numeric area_code column
BulkTableNumeric ==
    /\ ~IsEmpty(fao.bulk_df)
    /\ HasCol(fao.bulk_df, "area_code")
    /\ IsNumericCol(fao.bulk_df, "area_code")

\* the rows of the bulk table with the area code of c and an element of
\* the list (any element when the list is empty)
MatchingBulkRows(c, elements) ==
    LET df == fao.bulk_df
        matches(r) ==
            /\ r[ColIndex(df, "area_code")] = PyInt(M49_BY_ISO3(c))
            /\ \/ Len(elements) = 0
               \/ ~HasCol(df, "element")
               \/ CellStr(r[ColIndex(df, "element")]) \in Range(elements)
    IN  SelectSeqBy(df.rows, [k \in 1..Len(df.rows) |-> matches(df.rows[k])])

\* the rows this run wrote to the file of c
RowsWritten(c) ==
    IF c \in faoLog.apiWrote \cup faoLog.bulkWrote
    THEN faoDir.files[c].val
    ELSE EmptyDF

CountOf(rows, r) == Cardinality({k \in 1..Len(rows) : rows[k] = r})
SameRows(a, b) ==
    /\ Len(a) = Len(b)
    /\ \A r \in Range(a) \cup Range(b) : CountOf(a, r) = CountOf(b, r)

\* the written table holds the given bulk rows and no other, each tagged
\* _source = "bulk"
HoldsExactly(written, bulk_rows) ==
    LET cols == [k \in 1..Len(fao.bulk_df.columns) |-> fao.bulk_df.columns[k].val]
    IN  /\ SameRows([i \in 1..Len(written.rows) |->
                        [k \in 1..Len(cols) |-> written.rows[i][ColIndex(written, cols[k])]]],
                    bulk_rows)
        /\ \A i \in 1..Len(written.rows) :
               written.rows[i][ColIndex(written, "_source")] = PyStr("bulk")

\* C16 (as stated): when the API returned an empty list for a country and
\* the bulk table has a numeric area_code column, the rows written to the
\* country's file are exactly the bulk rows with its M49 code and a
\* configured element, each tagged _source = "bulk".
C16_BulkRowsExactly ==
    FaoRunEnded =>
        \A c \in Countries :
            ApiReturnedEmptyList(c) /\ BulkTableNumeric =>
                HoldsExactly(RowsWritten(c), MatchingBulkRows(c, ELEMENTS))

\* the same for the countries the bulk step takes up, which are those
\* with no file in the output folder when the API step is over
C16_BulkRowsExactlyWhenNoFile ==
    FaoRunEnded =>
        \A c \in Countries :
            ApiReturnedEmptyList(c) /\ BulkTableNumeric /\ IsIn(c, fao.need_bulk_for) =>
                HoldsExactly(RowsWritten(c), MatchingBulkRows(c, ELEMENTS))

C16_Witness ==
    /\ FaoRunEnded
    /\ ApiReturnedEmptyList("BLZ")
    /\ BulkTableNumeric
    /\ "BLZ" \in faoLog.bulkWrote
    /\ Len(MatchingBulkRows("BLZ", ELEMENTS)) = 2
    /\ Len(MatchingBulkRows("BLZ", ELEMENTS)) < Len(fao.bulk_df.rows)

\* the row r of the table df is of the country c: by its numeric area
\* code or, without one, by its area name
RowBelongsTo(df, r, c) ==
    IF HasCol(df, "area_code") /\ r[ColIndex(df, "area_code")].kind = "int"
    THEN r[ColIndex(df, "area_code")] = PyInt(M49_BY_ISO3(c))
    ELSE /\ HasCol(df, "area")
         /\ r[ColIndex(df, "area")].kind = "str"
         /\ StripLower(r[ColIndex(df, "area")].val) = StripLower(NAME_BY_ISO3(c))

\* C25: every row written to {iso3}_fbs.csv, by the API step or the bulk
\* step, belongs to that country: its area_code is the M49 code of the
\* country or, without a numeric area code, its area name is the name of
\* the country ignoring case; whatever the shape of the input table.
C25_RowsBelongToCountry ==
    \A c \in Countries :
        \A i \in 1..Len(RowsWritten(c).rows) :
            RowBelongsTo(RowsWritten(c), RowsWritten(c).rows[i], c)

\* the same for the files no part of which came from a table without
\* area_code and area columns
C25_RowsBelongToCountryWhenAreaGiven ==
    \A c \in Countries :
        (HasCol(RowsWritten(c), "area_code") \/ HasCol(RowsWritten(c), "area")) =>
            \A i \in 1..Len(RowsWritten(c).rows) :
                \/ RowBelongsTo(RowsWritten(c), RowsWritten(c).rows[i], c)
                \/ \E k \in 1..Len(faoLog.api) :
                      /\ faoLog.api[k].country_iso3 = c
                      /\ faoLog.api[k].noArea

\* the _source values of the rows of a written table
SourcesOf(df) ==
    IF HasCol(df, "_source")
    THEN { df.rows[i][ColIndex(df, "_source")] : i \in 1..Len(df.rows) }
    ELSE { PyNone }

\* C28: within one run each country's file is written by at most one of
\* the two steps and the manifest has at most one entry per country; every
\* manifest entry refers to a file written in this run, with the number of
\* rows written; all rows of one file carry the same _source.
C28_OneStepPerCountry ==
    /\ faoLog.apiWrote \cap faoLog.bulkWrote = {}
    /\ \A c \in Countries :
          Cardinality({ k \in 1..Len(fao.manifest_entries) :
                           fao.manifest_entries[k].country_iso3 = c }) <= 1
    /\ \A k \in 1..Len(fao.manifest_entries) :
          LET e == fao.manifest_entries[k]
          IN /\ e.country_iso3 \in faoLog.apiWrote \cup faoLog.bulkWrote
             /\ Exists(faoDir.files[e.country_iso3])
             /\ e.rows = Len(faoDir.files[e.country_iso3].val.rows)
    /\ \A c \in faoLog.apiWrote : SourcesOf(RowsWritten(c)) = { PyStr("api") }
    /\ \A c \in faoLog.bulkWrote : SourcesOf(RowsWritten(c)) = { PyStr("bulk") }
    /\ FaoRunEnded => faoDir.manifest.val.items = fao.manifest_entries

\* a run ended that wrote one country's file in the API step and the
\* other's in the bulk step
C28_Witness ==
    /\ FaoRunEnded
    /\ faoLog.apiWrote # {}
    /\ faoLog.bulkWrote # {}
    /\ Len(faoDir.manifest.val.items) = 2

(***************************************************************************)
(* build_world_bank as a state machine: one action per fetch               *)
(***************************************************************************)
InitWB ==
    /\ now = 0
    /\ cache = [key \in WbKeys |-> NoFile]
    /\ bulkCache = [u \in Range(BulkUrls) |-> NoFile]
    /\ call = NoCall
    /\ lastSet = NoCall
    /\ faults = 0
    /\ fao = FaoIdle
    /\ faoDir = FaoEmptyDir
    /\ faoLog = FaoNoLog
    /\ wb = WbIdle
    /\ wbDir = WbEmptyDir
    /\ wbLog = WbNoLog
    /\ main = MainIdle
    /\ mainDir = MainEmptyDir
    /\ httpCall = HttpIdle(DefaultRetries)
    /\ messy = MessyIdle
    /\ messyDir = MessyEmptyDir

\* what a World Bank request may be answered with
WbAnswers(nominal, faulty, asked) ==
    IF asked /\ faults < MaxWbFaults THEN {nominal} \cup faulty ELSE {nominal}

\* entry of build_world_bank: fresh dictionary_rows, manifest_entries, errors
WbStart ==
    /\ wb.pc = "idle"
    /\ wbLog.run < MaxWbRuns
    /\ wb' = [WbIdle EXCEPT !.pc = "meta"]
    /\ wbLog' = [WbNoLog EXCEPT !.run = wbLog.run + 1]
    /\ UNCHANGED <<cacheVars, faults, faoVars, wbDir, mainVars, httpCall, messyVars>>

\* the head of one iteration of "for code, meta in indicators.items()":
\* the metadata fetch and the dictionary row
WbMeta ==
    /\ wb.pc = "meta"
    /\ LET meta == INDICATORS[wb.k]
           key == WbMetaKey(meta.code)
           miss == cache_get(cache[key], now, CacheTtlHours) = PyNone
       IN \E http \in WbAnswers(WbMetaNominal, WbMetaFaulty, miss) :
          LET r == wb_fetch_indicator_meta(cache[key], now, CacheTtlHours, http)
              raised == r.raised \/ MetaRaises(r.data) \/ NoteRaises(r.data)
              wb_name == IF r.raised \/ MetaRaises(r.data) THEN "" ELSE WbNameOf(r.data)
              wb_source_note == IF raised THEN "" ELSE WbNoteOf(r.data)
          IN /\ cache' = [cache EXCEPT ![key] = r.file]
             /\ faults' = IF r.requested /\ http # WbMetaNominal THEN faults + 1 ELSE faults
             /\ wbLog' = [wbLog EXCEPT !.fetches = Append(@,
                              WbFetch("meta", meta.code, "", r.requested,
                                      IF r.requested THEN http ELSE cache[key].val))]
             /\ wb' = [wb EXCEPT
                         !.pc = "series", !.c = 1,
                         !.errors = IF raised
                                    THEN Append(@, WbError("wb_meta", meta.code, ""))
                                    ELSE @,
                         !.dictionary_rows = Append(@,
                              [indicator_code |-> meta.code,
                               name |-> IF meta.name # "" THEN meta.name ELSE wb_name,
                               unit |-> meta.unit, group |-> meta.group,
                               wb_name |-> wb_name, wb_source_note |-> wb_source_note])]
    /\ UNCHANGED <<now, bulkCache, call, lastSet, faoVars, wbDir, mainVars, httpCall, messyVars>>

\* one iteration of "for c in countries"
WbSeries ==
    /\ wb.pc = "series"
    /\ LET meta == INDICATORS[wb.k]
           c == COUNTRIES[wb.c]
           key == WbSeriesKey(meta.code, c)
           miss == cache_get(cache[key], now, CacheTtlHours) = PyNone
           next == IF wb.c < Len(COUNTRIES) THEN [wb EXCEPT !.c = @ + 1]
                   ELSE IF wb.k < Len(INDICATORS) THEN [wb EXCEPT !.pc = "meta", !.k = @ + 1]
                   ELSE [wb EXCEPT !.pc = "wrapup"]
       IN \E http \in WbAnswers(WbSeriesNominal(c), WbSeriesFaulty, miss) :
          LET r == wb_fetch_series(cache[key], now, CacheTtlHours, http)
              df == Tidy(r.data.val[2].val, c, meta)
              raised == r.raised \/ (HasRows(r.data) /\ TidyRaises(r.data.val[2]))
              written == ~raised /\ HasRows(r.data) /\ ~IsEmpty(df)
          IN /\ cache' = [cache EXCEPT ![key] = r.file]
             /\ faults' = IF r.requested /\ http # WbSeriesNominal(c)
                          THEN faults + 1 ELSE faults
             /\ wbLog' = [wbLog EXCEPT
                            !.fetches = Append(@,
                              WbFetch("series", meta.code, c, r.requested,
                                      IF r.requested THEN http ELSE cache[key].val)),
                            !.wrote = IF written THEN @ \cup {<<meta.code, c>>} ELSE @]
             /\ wbDir' = IF written
                         THEN [wbDir EXCEPT !.files[<<meta.code, c>>] =
                                  OutFile(sort_values(df, <<"year">>))]
                         ELSE wbDir
             /\ wb' = IF raised
                      THEN [next EXCEPT !.errors = Append(@, WbError("wb_data", meta.code, c))]
                      ELSE IF written
                      THEN [next EXCEPT !.manifest_entries = Append(@,
                               [path |-> <<c, meta.code>>, indicator |-> meta.code,
                                country |-> c, rows |-> Len(df.rows), updated_at |-> now])]
                      ELSE next
    /\ UNCHANGED <<now, bulkCache, call, lastSet, faoVars, mainVars, httpCall, messyVars>>

\* after the loops: _dictionary.csv, _manifest.json, _errors.json if errors,
\* the card if missing
WbWrapUp ==
    /\ wb.pc = "wrapup"
    /\ wbDir' = [wbDir EXCEPT
                   !.dictionary = OutFile(wb.dictionary_rows),
                   !.manifest = OutFile([generated_at |-> now, items |-> wb.manifest_entries]),
                   !.errors = IF Len(wb.errors) > 0 THEN OutFile(wb.errors) ELSE @,
                   !.card = write_card(@)]
    /\ wb' = [wb EXCEPT !.pc = "idle"]
    /\ wbLog' = [wbLog EXCEPT !.ended = TRUE]
    /\ UNCHANGED <<cacheVars, faults, faoVars, mainVars, httpCall, messyVars>>

NextWB == Tick \/ WbStart \/ WbMeta \/ WbSeries \/ WbWrapUp

SpecWB == InitWB /\ [][NextWB]_vars

(***************************************************************************)
(* main: build_world_bank, build_faostat_fbs, write_freshness, once        *)
(***************************************************************************)
\* parts.update({name: manifest})
PartsUpdate(parts, name, manifest) ==
    IF \E n \in 1..Len(parts) : parts[n][1] = name
    THEN [n \in 1..Len(parts) |->
            IF parts[n][1] = name THEN <<name, manifest>> ELSE parts[n]]
    ELSE Append(parts, <<name, manifest>>)

\* a write_freshness that returns early when no source reported
write_freshness_if_sources(parts, clock) ==
    IF Len(parts) = 0 THEN NoFile
    ELSE OutFile([generated_at |-> clock,
                  sources |-> [n \in 1..Len(parts) |->
                                 <<parts[n][1], parts[n][2].generated_at>>]])

\* a write_freshness that stamps every source with its own clock
write_freshness_own_clock(parts, clock) ==
    OutFile([generated_at |-> clock,
             sources |-> [n \in 1..Len(parts) |-> <<parts[n][1], clock>>]])

\* write_freshness: the stamp written to _freshness.json.  now_iso() is a
\* non-empty string, so v.get("generated_at") is truthy for every manifest.
write_freshness(parts, clock) ==
    OutFile([generated_at |-> clock,
             sources |-> [n \in 1..Len(parts) |-> <<parts[n][1], parts[n][2].generated_at>>]])

InitMain ==
    /\ now = 0
    /\ cache = [key \in WbKeys \cup FaoKeys |-> NoFile]
    /\ bulkCache = [u \in Range(BulkUrls) |-> NoFile]
    /\ call = NoCall
    /\ lastSet = NoCall
    /\ faults = 0
    /\ fao = FaoIdle
    /\ faoDir = FaoEmptyDir
    /\ faoLog = FaoNoLog
    /\ wb = WbIdle
    /\ wbDir = WbEmptyDir
    /\ wbLog = WbNoLog
    /\ main = [MainIdle EXCEPT !.pc = "start"]
    /\ mainDir = MainEmptyDir
    /\ httpCall = HttpIdle(DefaultRetries)
    /\ messy = MessyIdle
    /\ messyDir = MessyEmptyDir

\* cfg = load_config(): the sources it enables
MainLoadConfig ==
    /\ main.pc = "start"
    /\ \E cfg \in Configs : main' = [main EXCEPT !.pc = "wb", !.cfg = cfg]
    /\ UNCHANGED <<cacheVars, faults, faoVars, wbVars, mainDir, httpCall, messyVars>>

\* build_world_bank returns {} at once when the source is disabled
MainWbDisabled ==
    /\ main.pc = "wb"
    /\ ~main.cfg.wb_enabled
    /\ main' = [main EXCEPT !.pc = "fao"]
    /\ UNCHANGED <<cacheVars, faults, faoVars, wbVars, mainDir, httpCall, messyVars>>

\* the call of build_world_bank
MainWbCall ==
    /\ main.pc = "wb"
    /\ main.cfg.wb_enabled
    /\ ~wbLog.ended
    /\ WbStart

\* parts.update(build_world_bank(...)): it returned {"world_bank": manifest}
MainWbReturn ==
    /\ main.pc = "wb"
    /\ wb.pc = "idle"
    /\ wbLog.ended
    /\ main' = [main EXCEPT !.pc = "fao",
                            !.parts = PartsUpdate(@, "world_bank", wbDir.manifest.val)]
    /\ UNCHANGED <<cacheVars, faults, faoVars, wbVars, mainDir, httpCall, messyVars>>

MainFaoDisabled ==
    /\ main.pc = "fao"
    /\ ~main.cfg.fao_enabled
    /\ main' = [main EXCEPT !.pc = "freshness"]
    /\ UNCHANGED <<cacheVars, faults, faoVars, wbVars, mainDir, httpCall, messyVars>>

\* the call of build_faostat_fbs
MainFaoCall ==
    /\ main.pc = "fao"
    /\ main.cfg.fao_enabled
    /\ ~faoLog.ended
    /\ FaoStart

\* parts.update(build_faostat_fbs(...)): it returned {"faostat_fbs": manifest}
MainFaoReturn ==
    /\ main.pc = "fao"
    /\ fao.pc = "idle"
    /\ faoLog.ended
    /\ main' = [main EXCEPT !.pc = "freshness",
                            !.parts = PartsUpdate(@, "faostat_fbs", faoDir.manifest.val)]
    /\ UNCHANGED <<cacheVars, faults, faoVars, wbVars, mainDir, httpCall, messyVars>>

\* write_freshness(out_dir, parts), then main returns
MainFreshness ==
    /\ main.pc = "freshness"
    /\ mainDir' = [mainDir EXCEPT !.freshness = write_freshness(main.parts, now)]
    /\ main' = [main EXCEPT !.pc = "done"]
    /\ UNCHANGED <<cacheVars, faults, faoVars, wbVars, httpCall, messyVars>>

NextMain ==
    \/ MainLoadConfig
    \/ MainWbDisabled
    \/ MainWbCall
    \/ WbMeta
    \/ WbSeries
    \/ WbWrapUp
    \/ MainWbReturn
    \/ MainFaoDisabled
    \/ MainFaoCall
    \/ FaoApiDomain
    \/ FaoApiWrite
    \/ FaoNeedBulk
    \/ FaoBulkMirror
    \/ FaoBulkFilter
    \/ FaoWrapUp
    \/ MainFaoReturn
    \/ MainFreshness

SpecMain == InitMain /\ [][NextMain]_vars

\* the same run while time passes between the builds
\* main starts with part of the fault budget spent: the behaviours with at
\* most two upstream faults
InitMainClock ==
    /\ now = 0
    /\ cache = [key \in WbKeys \cup FaoKeys |-> NoFile]
    /\ bulkCache = [u \in Range(BulkUrls) |-> NoFile]
    /\ call = NoCall
    /\ lastSet = NoCall
    /\ faults = MaxFaults - 2
    /\ fao = FaoIdle
    /\ faoDir = FaoEmptyDir
    /\ faoLog = FaoNoLog
    /\ wb = WbIdle
    /\ wbDir = WbEmptyDir
    /\ wbLog = WbNoLog
    /\ main = [MainIdle EXCEPT !.pc = "start"]
    /\ mainDir = MainEmptyDir
    /\ httpCall = HttpIdle(DefaultRetries)
    /\ messy = MessyIdle
    /\ messyDir = MessyEmptyDir

SpecMainClock == InitMainClock /\ [][NextMain \/ Tick]_vars

\* main is one sequential process: it keeps taking steps until it returns
SpecMainFair == SpecMain /\ ([]<><<TRUE>>_vars \/ <>[](main.pc = "done"))

\* -------- one call of http_get --------

InitHttp ==
    /\ now = 0
    /\ cache = [key \in CacheKeys |-> NoFile]
    /\ bulkCache = [url \in Range(BulkUrls) |-> NoFile]
    /\ call = NoCall
    /\ lastSet = NoCall
    /\ faults = 0
    /\ fao = FaoIdle
    /\ faoDir = FaoEmptyDir
    /\ faoLog = FaoNoLog
    /\ wb = WbIdle
    /\ wbDir = WbEmptyDir
    /\ wbLog = WbNoLog
    /\ main = MainIdle
    /\ mainDir = MainEmptyDir
    /\ \E retries \in EnvRetries : httpCall = HttpIdle(retries)
    /\ messy = MessyIdle
    /\ messyDir = MessyEmptyDir

\* http_get is called: the adapter starts from the session's retry budget
HttpGet ==
    /\ httpCall.pc # "sending"
    /\ httpCall' = [HttpIdle(httpCall.retries) EXCEPT !.pc = "sending"]
    /\ UNCHANGED <<cacheVars, faults, faoVars, wbVars, mainVars, messyVars>>

\* what SESSION.get and raise_for_status make of one more attempt
AfterAttempt(h, outcome) ==
    LET spent == Increment(h.retry, outcome)
        seen == [h EXCEPT !.sent = h.sent + 1, !.last = outcome]
        final == [seen EXCEPT !.pc = IF raise_for_status(outcome)
                                     THEN "raised" ELSE "returned"]
    IN  IF outcome.kind # "response"
        THEN IF IsExhausted(spent)
             THEN [seen EXCEPT !.pc = "raised", !.retry = spent]
             ELSE [seen EXCEPT !.retry = spent]
        ELSE IF IsRetry(h.retry, outcome)
             THEN IF IsExhausted(spent)
                  THEN [final EXCEPT !.retry = spent]   \* raise_on_status=False
                  ELSE [seen EXCEPT !.retry = spent]
             ELSE final

\* one attempt of the request, the first one or a retry
HttpSend ==
    /\ httpCall.pc = "sending"
    /\ \E outcome \in HttpOutcomes : httpCall' = AfterAttempt(httpCall, outcome)
    /\ UNCHANGED <<cacheVars, faults, faoVars, wbVars, mainVars, messyVars>>

NextHttp == HttpGet \/ HttpSend

SpecHttp == InitHttp /\ [][NextHttp]_vars

\* -------- claims about http_get --------

HttpRetrying == httpCall.pc = "sending" /\ httpCall.sent > 0
HttpEnded == httpCall.pc \in {"returned", "raised"}
HttpRetries == IF httpCall.sent = 0 THEN 0 ELSE httpCall.sent - 1
RetryableFailure(outcome) ==
    \/ outcome.kind \in {"connect_error", "read_timeout"}
    \/ outcome.kind = "response" /\ outcome.status \in STATUS_FORCELIST
RetryAfterHonoured(outcome) ==
    /\ outcome.kind = "response"
    /\ outcome.retry_after
    /\ outcome.status \in RETRY_AFTER_STATUS_CODES

\* the parts of C14 other than the causes of a retry
HttpBudgetAndEnding ==
    /\ HttpRetries <= httpCall.retries
    /\ httpCall.last.kind = "response" /\ httpCall.last.status = 200 => httpCall.pc = "returned"
    /\ httpCall.last.kind = "response" /\ httpCall.last.status = 404 => httpCall.pc = "raised"
    /\ HttpEnded /\ RetryableFailure(httpCall.last) =>
           /\ httpCall.pc = "raised"
           /\ HttpRetries = httpCall.retries
    /\ httpCall.pc = "returned" => ~raise_for_status(httpCall.last)

\* C14 (as stated): one call of http_get retries at most N times, and only
\* after a connection failure, a read timeout or an HTTP 429/500/502/503/504
\* response; a successful response ends the call, a 404 raises without a
\* retry, and a call whose retries are exhausted raises.
C14_RetryOnlyListedFailures ==
    /\ HttpBudgetAndEnding
    /\ HttpRetrying => RetryableFailure(httpCall.last)

\* C14 (amended): the same, where a retry also follows a 413, 429 or 503
\* response that carries a Retry-After header while retries are left.
C14_RetryListedOrRetryAfter ==
    /\ HttpBudgetAndEnding
    /\ HttpRetrying => RetryableFailure(httpCall.last) \/ RetryAfterHonoured(httpCall.last)

\* with the default budget, a call that met a refused connection, a
\* timeout and then one 503 after another has raised after six retries
C14_Witness ==
    /\ httpCall.retries = DefaultRetries
    /\ httpCall.pc = "raised"
    /\ HttpRetries = DefaultRetries
    /\ httpCall.retry.connect = DefaultRetries - 1
    /\ httpCall.retry.read = DefaultRetries - 1
    /\ httpCall.last = Response(503, FALSE)

(***************************************************************************)
(* The messy-dataset fetcher (fetch_messy.py): main                        *)
(***************************************************************************)
\* runs of the fetcher in one behaviour
MaxMessyRuns == 2

RawFile(slug, fn, content) == [slug |-> slug, fn |-> fn, content |-> content]

\* save_bytes(dest, b) with dest = RAW_DIR / slug / fn: the file at that
\* path is replaced, every other file of raw/ stays
save_bytes(raw, slug, fn, b) ==
    { f \in raw : ~(f.slug = slug /\ f.fn = fn) } \cup { RawFile(slug, fn, b) }

\* the try block without lines 192-193
MessyTry_link_unchecked(it, page, body) ==
    LET src == it.url
        src_is_file == is_file_url(src)
        link == IF src_is_file THEN PyNone ELSE discover_xlsx_link(src, page)
        resolved == IF src_is_file \/ link = PyNone THEN src ELSE link
        fn == FileName(resolved, it.slug)
    IN IF body = Raised
       THEN [ok |-> FALSE, error |-> "http error",
             resolved |-> resolved, fn |-> <<>>, analysis |-> ""]
       ELSE [ok |-> TRUE, error |-> "",
             resolved |-> resolved, fn |-> fn, analysis |-> analysis_type(fn)]

\* the try block of one iteration of "for it in items": page is the answer
\* to the request of discover_xlsx_link, body the answer to the download
MessyTry(it, page, body) ==
    LET src == it.url
        src_is_file == is_file_url(src)
        link == IF src_is_file THEN PyNone ELSE discover_xlsx_link(src, page)
        resolved == IF src_is_file THEN src ELSE link
        fn == FileName(resolved, it.slug)
    IN IF ~src_is_file /\ link = PyNone
       THEN [ok |-> FALSE, error |-> "No .xlsx link discovered on page",
             resolved |-> src, fn |-> <<>>, analysis |-> ""]
       ELSE IF body = Raised
       THEN [ok |-> FALSE, error |-> "http error",
             resolved |-> resolved, fn |-> <<>>, analysis |-> ""]
       ELSE [ok |-> TRUE, error |-> "",
             resolved |-> resolved, fn |-> fn, analysis |-> analysis_type(fn)]

MessyManifestEntry(it, t, b) ==
    [slug |-> it.slug, name |-> it.name, source |-> it.source,
     original_url |-> it.url, resolved_download_url |-> t.resolved,
     saved_path |-> <<it.slug, t.fn>>, sha1 |-> b]

\* the report entry filed under the item's display name
MessyReportEntry_by_name(it, t) == [slug |-> it.name, name |-> it.name, analysis |-> t.analysis]

MessyReportEntry(it, t) == [slug |-> it.slug, name |-> it.name, analysis |-> t.analysis]

MessyErrorRecord(it, t) == [slug |-> it.slug, url |-> it.url, error |-> t.error]

\* main, lines 169-173: messy ingest disabled, nothing is written
MessyDisabled ==
    /\ messy.pc \in {"idle", "done"}
    /\ messy.run < MaxMessyRuns
    /\ messy' = [MessyIdle EXCEPT !.pc = "done", !.run = messy.run + 1]
    /\ UNCHANGED <<cacheVars, faults, faoVars, wbVars, mainVars, httpCall, messyDir>>

\* main, lines 175-180
MessyStart ==
    /\ messy.pc \in {"idle", "done"}
    /\ messy.run < MaxMessyRuns
    /\ messy' = [MessyIdle EXCEPT !.pc = "loop", !.run = messy.run + 1,
                                  !.generated_at = now, !.before = messyDir]
    /\ UNCHANGED <<cacheVars, faults, faoVars, wbVars, mainVars, httpCall, messyDir>>

\* one iteration of "for it in items", lines 182-235
MessyItem ==
    /\ messy.pc = "loop"
    /\ messy.i <= Len(ITEMS)
    /\ LET it == ITEMS[messy.i]
           asksPage == ~is_file_url(it.url)
       IN \E page \in Answers(PageNominal, PageFaulty, asksPage) :
          LET f1 == IF asksPage /\ page # PageNominal THEN faults + 1 ELSE faults
              link == discover_xlsx_link(it.url, page)
              downloads == ~asksPage \/ link # PyNone
              target == IF asksPage THEN link ELSE it.url
              bodies == IF ~downloads THEN {PyNone}
                        ELSE IF f1 < MaxFaults THEN {FileNominal(target)} \cup FileFaulty
                        ELSE {FileNominal(target)}
          IN \E body \in bodies :
             LET t == MessyTry(it, page, body)
             IN /\ faults' = IF downloads /\ body # FileNominal(target) THEN f1 + 1 ELSE f1
                /\ messyDir' = IF t.ok
                               THEN [messyDir EXCEPT !.raw = save_bytes(@, it.slug, t.fn, body)]
                               ELSE messyDir
                /\ messy' =
                     IF t.ok
                     THEN [messy EXCEPT
                             !.i = @ + 1,
                             !.manifest_items = Append(@, MessyManifestEntry(it, t, body)),
                             !.report_files = Append(@, MessyReportEntry(it, t)),
                             !.fetched = Append(@, [page |-> asksPage, link |-> asksPage /\ link # PyNone,
                                                    pageRaised |-> asksPage /\ page = Raised,
                                                    ok |-> TRUE])]
                     ELSE [messy EXCEPT
                             !.i = @ + 1,
                             !.errors = Append(@, MessyErrorRecord(it, t)),
                             !.fetched = Append(@, [page |-> asksPage, link |-> asksPage /\ link # PyNone,
                                                    pageRaised |-> asksPage /\ page = Raised,
                                                    ok |-> FALSE])]
    /\ UNCHANGED <<cacheVars, faoVars, wbVars, mainVars, httpCall>>

\* the files of the bundle: README.md, the two metadata files and every file
\* found under raw/
Bundle(items, manifest, report, raw) ==
    [readme |-> build_readme(items), manifest |-> manifest, report |-> report, raw |-> raw]

\* main after the loop, lines 237-267
MessyWrapUp ==
    /\ messy.pc = "loop"
    /\ messy.i > Len(ITEMS)
    /\ LET manifest == [generated_at |-> messy.generated_at, items |-> messy.manifest_items]
           report == [generated_at |-> messy.generated_at, files |-> messy.report_files]
       IN messyDir' =
            [messyDir EXCEPT
               !.manifest = OutFile(manifest),
               !.report = OutFile(report),
               !.errors = IF messy.errors # <<>> THEN OutFile(messy.errors) ELSE @,
               !.card = write_card(@),
               !.bundle = OutFile(Bundle(ITEMS, manifest, report, messyDir.raw))]
    /\ messy' = [messy EXCEPT !.pc = "done", !.ended = TRUE]
    /\ UNCHANGED <<cacheVars, faults, faoVars, wbVars, mainVars, httpCall>>

InitMessy ==
    /\ now = 0
    /\ cache = [key \in CacheKeys |-> NoFile]
    /\ bulkCache = [url \in Range(BulkUrls) |-> NoFile]
    /\ call = NoCall
    /\ lastSet = NoCall
    /\ faults = 0
    /\ fao = FaoIdle
    /\ faoDir = FaoEmptyDir
    /\ faoLog = FaoNoLog
    /\ wb = WbIdle
    /\ wbDir = WbEmptyDir
    /\ wbLog = WbNoLog
    /\ main = MainIdle
    /\ mainDir = MainEmptyDir
    /\ httpCall = HttpIdle(DefaultRetries)
    /\ messy = MessyIdle
    /\ messyDir = MessyEmptyDir

NextMessy == Tick \/ MessyDisabled \/ MessyStart \/ MessyItem \/ MessyWrapUp

SpecMessy == InitMessy /\ [][NextMessy]_vars

(***************************************************************************)
(* The three builds run again and again, one at a time                     *)
(***************************************************************************)
\* a card left by an earlier version of the scripts, or edited by hand
EarlierCard == OutFile("earlier card")

NoBuildRuns == fao.pc = "idle" /\ wb.pc = "idle" /\ messy.pc \in {"idle", "done"}

\* the folders hold a card or none; one upstream fault is left to the runs
InitCards ==
    /\ now = 0
    /\ cache = [key \in WbKeys \cup FaoKeys |-> NoFile]
    /\ bulkCache = [u \in Range(BulkUrls) |-> NoFile]
    /\ call = NoCall
    /\ lastSet = NoCall
    /\ faults = MaxFaults - 1
    /\ fao = FaoIdle
    /\ faoDir \in {FaoEmptyDir, [FaoEmptyDir EXCEPT !.card = EarlierCard]}
    /\ faoLog = FaoNoLog
    /\ wb = WbIdle
    /\ wbDir = [WbEmptyDir EXCEPT !.card = faoDir.card]
    /\ wbLog = WbNoLog
    /\ main = MainIdle
    /\ mainDir = MainEmptyDir
    /\ httpCall = HttpIdle(DefaultRetries)
    /\ messy = MessyIdle
    /\ messyDir = [MessyEmptyDir EXCEPT !.card = faoDir.card]

NextCards ==
    \/ NoBuildRuns /\ WbStart
    \/ WbMeta
    \/ WbSeries
    \/ WbWrapUp
    \/ NoBuildRuns /\ FaoStart
    \/ FaoApiDomain
    \/ FaoApiWrite
    \/ FaoNeedBulk
    \/ FaoBulkMirror
    \/ FaoBulkFilter
    \/ FaoWrapUp
    \/ NoBuildRuns /\ MessyDisabled
    \/ NoBuildRuns /\ MessyStart
    \/ MessyItem
    \/ MessyWrapUp

SpecCards == InitCards /\ [][NextCards]_vars

(***************************************************************************)
(* Claims on the dataset cards                                             *)
(***************************************************************************)
\* C24: once the _dataset_card.md of a source exists, no later run of the
\* build of that source (World Bank, FAOSTAT, messy) modifies it.
C24_CardWrittenOnce ==
    [][ /\ Exists(wbDir.card) => wbDir'.card = wbDir.card
        /\ Exists(faoDir.card) => faoDir'.card = faoDir.card
        /\ Exists(messyDir.card) => messyDir'.card = messyDir.card ]_vars

\* each build ended a run in a folder that held a card before, the FAOSTAT
\* build after it had recorded errors, the World Bank build for the second
\* time
C24_Witness ==
    /\ wbLog.ended /\ wbLog.run = MaxWbRuns /\ wbDir.card = EarlierCard
    /\ faoLog.ended /\ faoLog.before.card = EarlierCard /\ faoDir.card = EarlierCard
    /\ Len(fao.errors) > 0
    /\ messy.ended /\ messy.before.card = EarlierCard /\ messyDir.card = EarlierCard

(***************************************************************************)
(* Claims on the messy-dataset fetcher                                     *)
(***************************************************************************)
SlugsOf(entries) == [k \in 1..Len(entries) |-> entries[k].slug]

Occurrences(slug, entries) == Cardinality({ k \in 1..Len(entries) : entries[k].slug = slug })

\* the k-th item of this run was a page on which no workbook link was found,
\* or whose request failed
NoLinkFound(k) == messy.fetched[k].page /\ ~messy.fetched[k].link

\* C21: an item whose URL is a page on which no spreadsheet link is found
\* (or whose page request fails) gets exactly one error record and no
\* manifest or report entry; main goes on to the remaining items and ends
\* with every item processed.
C21_NoLinkIsRecordedError ==
    /\ Len(messy.fetched) = messy.i - 1
    /\ \A k \in 1..Len(messy.fetched) :
          NoLinkFound(k) =>
             /\ Occurrences(ITEMS[k].slug, messy.errors) = 1
             /\ Occurrences(ITEMS[k].slug, messy.manifest_items) = 0
             /\ Occurrences(ITEMS[k].slug, messy.report_files) = 0
    /\ messy.ended => Len(messy.fetched) = Len(ITEMS)

\* a run ended in which the page of the second item had no workbook link
\* and the item after it was downloaded
C21_Witness ==
    /\ messy.ended
    /\ NoLinkFound(2) /\ ~messy.fetched[2].pageRaised
    /\ messy.fetched[3].ok
    /\ Occurrences(ITEMS[3].slug, messy.manifest_items) = 1

\* C29: in one run every configured item ends either with one manifest
\* entry and one report entry, or with one error record; the manifest and
\* the report list the same slugs in the same order, and manifest entries
\* plus error records number the configured items.
C29_OneOutcomePerItem ==
    /\ \A k \in 1..Len(messy.fetched) :
          LET inManifest == Occurrences(ITEMS[k].slug, messy.manifest_items)
              inReport == Occurrences(ITEMS[k].slug, messy.report_files)
              inErrors == Occurrences(ITEMS[k].slug, messy.errors)
          IN \/ inManifest = 1 /\ inReport = 1 /\ inErrors = 0
             \/ inManifest = 0 /\ inReport = 0 /\ inErrors = 1
    /\ SlugsOf(messy.manifest_items) = SlugsOf(messy.report_files)
    /\ Len(messy.manifest_items) + Len(messy.errors) = Len(messy.fetched)
    /\ messy.ended =>
          /\ Len(messy.fetched) = Len(ITEMS)
          /\ messyDir.manifest.val.items = messy.manifest_items
          /\ messyDir.report.val.files = messy.report_files
          /\ messy.errors # <<>> => messyDir.errors.val = messy.errors

\* a run ended with two items downloaded and one recorded as an error
C29_Witness ==
    /\ messy.ended
    /\ Len(messy.manifest_items) = 2
    /\ Len(messy.errors) = 1
    /\ SlugsOf(messy.report_files) = <<"census", "rain">>

\* the slugs listed in the README of the bundle, in the bundled manifest,
\* and of the raw files of the bundle
ReadmeSlugs(b) == { b.readme[k].slug : k \in 1..Len(b.readme) }
BundledManifestSlugs(b) == { b.manifest.items[k].slug : k \in 1..Len(b.manifest.items) }
BundledRawSlugs(b) == { f.slug : f \in b.raw }

\* C22: after any sequence of runs the README of _bundle.zip lists exactly
\* the items included in the bundle: an item whose download failed in this
\* run is not listed, and every raw file of the bundle belongs to an item
\* listed in the README and in the bundled _manifest.json.
C22_ReadmeListsBundledItems ==
    messy.ended =>
       LET b == messyDir.bundle.val
       IN /\ \A k \in 1..Len(ITEMS) : ~messy.fetched[k].ok => ITEMS[k].slug \notin ReadmeSlugs(b)
          /\ ReadmeSlugs(b) = BundledRawSlugs(b)
          /\ BundledRawSlugs(b) \subseteq BundledManifestSlugs(b)

(***************************************************************************)
(* Claims on main                                                          *)
(***************************************************************************)
MainDone == main.pc = "done"

\* both builds returned (a disabled one at once), the manifest of every
\* enabled source and _freshness.json are written
MainOutputsWritten ==
    /\ main.cfg.wb_enabled => (wbLog.ended /\ wb.pc = "idle" /\ Exists(wbDir.manifest))
    /\ main.cfg.fao_enabled => (faoLog.ended /\ fao.pc = "idle" /\ Exists(faoDir.manifest))
    /\ Exists(mainDir.freshness)

\* the statement main is at has a step to take: the loops are inside their
\* lists, and no build is left at a position that nothing continues
MainCanStep ==
    \/ main.pc = "start"
    \/ /\ main.pc = "wb"
       /\ \/ ~main.cfg.wb_enabled
          \/ wb.pc = "idle"
          \/ wb.pc = "meta" /\ wb.k \in 1..Len(INDICATORS)
          \/ wb.pc = "series" /\ wb.k \in 1..Len(INDICATORS) /\ wb.c \in 1..Len(COUNTRIES)
          \/ wb.pc = "wrapup"
    \/ /\ main.pc = "fao"
       /\ \/ ~main.cfg.fao_enabled
          \/ fao.pc = "idle"
          \/ fao.pc = "api" /\ fao.i \in 1..Len(COUNTRIES_ISO3) /\ fao.d \in 1..Len(DOMAINS) + 1
          \/ fao.pc = "need_bulk"
          \/ fao.pc = "bulk" /\ fao.u \in 1..Len(BulkUrls)
          \/ fao.pc = "filter" /\ fao.b \in 1..Len(fao.need_bulk_for)
          \/ fao.pc = "wrapup"
    \/ main.pc = "freshness"

\* C13: whatever the fetches answer (success, transport error, a body that
\* is no JSON, a malformed shape, empty data), main runs to completion: it
\* is never left without a next step before it returns, both builds return,
\* and the manifest of each enabled source (both, when both are enabled) and
\* _freshness.json are written.
C13_MainCompletes ==
    /\ [](MainDone \/ MainCanStep)
    /\ <>[](MainDone /\ MainOutputsWritten)

\* main completed with both sources enabled although a World Bank fetch
\* raised and the FAOSTAT API sent rows of a malformed shape
C13_Witness ==
    /\ MainDone
    /\ main.cfg = Config(TRUE, TRUE)
    /\ MainOutputsWritten
    /\ Len(wb.errors) > 0
    /\ HasError("fao_api_top", "", "", "")

\* the sources of _freshness.json, as pairs <<source, generated_at>>
FreshnessSources ==
    { mainDir.freshness.val.sources[n] : n \in 1..Len(mainDir.freshness.val.sources) }

\* what the claim has _freshness.json hold: for every enabled source the
\* generated_at of the manifest it wrote in this run
ExpectedSources ==
    (IF main.cfg.wb_enabled
     THEN {<<"world_bank", wbDir.manifest.val.generated_at>>} ELSE {})
    \cup
    (IF main.cfg.fao_enabled
     THEN {<<"faostat_fbs", faoDir.manifest.val.generated_at>>} ELSE {})

\* C23: after every run of main, _freshness.json holds for each enabled
\* source the generated_at of the manifest that source wrote in this run,
\* and no entry for a disabled source, whether or not the source recorded
\* errors or wrote a data file.
C23_FreshnessOfEnabledSources ==
    MainDone =>
       /\ Exists(mainDir.freshness)
       /\ main.cfg.wb_enabled => wbLog.ended /\ Exists(wbDir.manifest)
       /\ main.cfg.fao_enabled => faoLog.ended /\ Exists(faoDir.manifest)
       /\ FreshnessSources = ExpectedSources
       /\ Len(mainDir.freshness.val.sources) = Cardinality(ExpectedSources)

\* main ended after the hour changed between the two builds and again
\* before the stamp; the FAOSTAT build recorded errors and wrote no file for
\* one of the countries
C23_Witness ==
    /\ MainDone
    /\ main.cfg = Config(TRUE, TRUE)
    /\ Len(fao.errors) > 0
    /\ Len(faoDir.manifest.val.items) < Len(COUNTRIES_ISO3)
    /\ wbDir.manifest.val.generated_at < faoDir.manifest.val.generated_at
    /\ faoDir.manifest.val.generated_at < mainDir.freshness.val.generated_at
    /\ FreshnessSources = ExpectedSources

(***************************************************************************)
(* Claims on build_world_bank                                              *)
(***************************************************************************)
WbRunEnded == wb.pc = "idle" /\ wbLog.ended

\* the fetches of one indicator in the run, as positions of the log
WbFetchesOf(code) == { n \in 1..Len(wbLog.fetches) : wbLog.fetches[n].indicator = code }

\* the fetch raised: a transport error, or a body that is no JSON
FetchRaised(e) == e.requested /\ e.answer \in {Raised, Garbage}

\* the fetch returned the indicator's non-empty data
FetchReturnedData(e) ==
    IF e.what = "series" THEN e.answer = WbSeriesNominal(e.country)
    ELSE e.answer = WbMetaNominal

WbRaisedFetchesOf(code) == { n \in WbFetchesOf(code) : FetchRaised(wbLog.fetches[n]) }

\* fetching exactly this one of the indicators raises, the others return
\* non-empty data
OnlyIndicatorRaises(k) ==
    /\ WbRaisedFetchesOf(INDICATORS[k].code) # {}
    /\ \A n \in WbFetchesOf(INDICATORS[k].code) :
          FetchRaised(wbLog.fetches[n]) \/ FetchReturnedData(wbLog.fetches[n])
    /\ \A j \in 1..Len(INDICATORS) : j # k =>
          \A n \in WbFetchesOf(INDICATORS[j].code) : FetchReturnedData(wbLog.fetches[n])

\* the run wrote a CSV for each of the other indicators, for every country
OthersWritten(k) ==
    \A j \in 1..Len(INDICATORS) : j # k =>
       \A c \in Range(COUNTRIES) :
          /\ <<INDICATORS[j].code, c>> \in wbLog.wrote
          /\ Exists(wbDir.files[<<INDICATORS[j].code, c>>])

\* C3 (as amended): when the fetches of exactly one of the five indicators
\* raise and the other four return non-empty data, the run writes a CSV for
\* each of the other four indicators and every country, and _errors.json
\* holds one entry for each fetch of the failing indicator that raised (its
\* metadata fetch, and its series fetch for each country), all of them naming
\* that indicator.
C3_OneEntryPerRaisedFetch ==
    WbRunEnded =>
       \A k \in 1..Len(INDICATORS) : OnlyIndicatorRaises(k) =>
          /\ OthersWritten(k)
          /\ Exists(wbDir.errors)
          /\ wbDir.errors.val = wb.errors
          /\ Len(wb.errors) = Cardinality(WbRaisedFetchesOf(INDICATORS[k].code))
          /\ \A n \in 1..Len(wb.errors) : wb.errors[n].indicator = INDICATORS[k].code

\* C3 (as stated): in that case _errors.json holds exactly one entry.
C3_ExactlyOneEntry ==
    WbRunEnded =>
       \A k \in 1..Len(INDICATORS) : OnlyIndicatorRaises(k) =>
          /\ OthersWritten(k)
          /\ Exists(wbDir.errors)
          /\ Len(wbDir.errors.val) = 1

\* a run in which the metadata fetch and the series fetch of one indicator
\* both raised, and the other four indicators were written
C3_Witness ==
    /\ WbRunEnded
    /\ \E k \in 1..Len(INDICATORS) :
          /\ OnlyIndicatorRaises(k)
          /\ OthersWritten(k)
          /\ Cardinality(WbRaisedFetchesOf(INDICATORS[k].code)) = 2
          /\ Exists(wbDir.errors)
          /\ Len(wbDir.errors.val) = 2

\* the series fetches of the run, as positions of the log
WbSeriesFetches == { n \in 1..Len(wbLog.fetches) : wbLog.fetches[n].what = "series" }

\* the fetch returned a response (from the API or from the cache) that is no
\* list, has fewer than two elements, or has no rows (an empty list or null
\* as its second element)
NoDataResponse(e) ==
    /\ ~FetchRaised(e)
    /\ LET data == JsonLoads(e.answer)
       IN  \/ data.kind # "list"
           \/ Len(data.val) < 2
           \/ data.val[2] = PyList(<<>>)
           \/ data.val[2] = PyNone

WbManifestHas(code, c) ==
    \E n \in 1..Len(wb.manifest_entries) :
        wb.manifest_entries[n].indicator = code /\ wb.manifest_entries[n].country = c

WbHasError(stage, code, c) ==
    \E n \in 1..Len(wb.errors) : wb.errors[n] = WbError(stage, code, c)

\* C17: a series response that is not a list, has fewer than two elements
\* or has an empty row list is no data: for that indicator and country the
\* run writes no CSV, adds no manifest entry and appends no error record.
C17_NoDataIsNoError ==
    \A n \in WbSeriesFetches :
        LET e == wbLog.fetches[n] IN
        NoDataResponse(e) =>
            /\ <<e.indicator, e.country>> \notin wbLog.wrote
            /\ ~WbManifestHas(e.indicator, e.country)
            /\ ~WbHasError("wb_data", e.indicator, e.country)

\* one run met a response that is no list and one with an empty row list,
\* and ended with no error record at all
C17_Witness ==
    /\ WbRunEnded
    /\ \E n \in WbSeriesFetches : wbLog.fetches[n].answer = JsonDumps(WbNotList)
    /\ \E n \in WbSeriesFetches : wbLog.fetches[n].answer = JsonDumps(WbEmptyRows)
    /\ Len(wb.errors) = 0
    /\ ~Exists(wbDir.errors)
    /\ Len(wb.manifest_entries) = Len(INDICATORS) * Len(COUNTRIES) - 2

\* the metadata fetches of the run, as positions of the log
WbMetaFetches == { n \in 1..Len(wbLog.fetches) : wbLog.fetches[n].what = "meta" }

StrOrAbsent(d, key) == DictGetOrNone(d, key).kind \in {"str", "none"}

\* the response is the two-element structure whose second element starts
\* with an object that has a name and a sourceNote, each a string or absent
MetaWellFormed(e) ==
    /\ ~FetchRaised(e)
    /\ LET md == JsonLoads(e.answer)
       IN  /\ md.kind = "list"
           /\ Len(md.val) > 1
           /\ md.val[2].kind = "list"
           /\ Len(md.val[2].val) > 0
           /\ md.val[2].val[1].kind = "dict"
           /\ StrOrAbsent(md.val[2].val[1], "name")
           /\ StrOrAbsent(md.val[2].val[1], "sourceNote")

DictionaryRowsOf(code) ==
    { n \in 1..Len(wb.dictionary_rows) : wb.dictionary_rows[n].indicator_code = code }

SeriesAttempted(code, c) ==
    \E n \in WbSeriesFetches :
        wbLog.fetches[n].indicator = code /\ wbLog.fetches[n].country = c

\* whatever the metadata fetch of an indicator did, the indicator has one
\* dictionary row, and the run fetches its series for every country
OneRowAndSeriesAttempted ==
    /\ \A n \in WbMetaFetches :
           Cardinality(DictionaryRowsOf(wbLog.fetches[n].indicator)) = 1
    /\ WbRunEnded =>
           \A k \in 1..Len(INDICATORS) :
               /\ \E n \in WbMetaFetches : wbLog.fetches[n].indicator = INDICATORS[k].code
               /\ \A c \in Range(COUNTRIES) : SeriesAttempted(INDICATORS[k].code, c)

\* C18: for every indicator, whatever wb_fetch_indicator_meta did (success,
\* exception, short or malformed response), exactly one dictionary row is
\* appended, its wb_name and wb_source_note are empty strings when the
\* metadata is missing or malformed, and the series of the indicator are
\* still fetched for every country.
C18_DictionaryRowWhateverMeta ==
    /\ OneRowAndSeriesAttempted
    /\ \A n \in WbMetaFetches :
           LET e == wbLog.fetches[n] IN
           ~MetaWellFormed(e) =>
               \A j \in DictionaryRowsOf(e.indicator) :
                   /\ wb.dictionary_rows[j].wb_name = ""
                   /\ wb.dictionary_rows[j].wb_source_note = ""

\* the same, where a malformed sourceNote empties the source note only
C18_NoteEmptyWhateverMeta ==
    /\ OneRowAndSeriesAttempted
    /\ \A n \in WbMetaFetches :
           LET e == wbLog.fetches[n] IN
           ~MetaWellFormed(e) =>
               \A j \in DictionaryRowsOf(e.indicator) :
                   /\ wb.dictionary_rows[j].wb_source_note = ""
                   /\ wb.dictionary_rows[j].wb_name # "" =>
                          /\ e.answer = JsonDumps(WbMetaBadNote)
                          /\ WbHasError("wb_meta", e.indicator, "")

\* the fetch returned a list whose second element is a non-empty list of
\* objects, the country of each an object or absent
SeriesHasApiRows(e) ==
    /\ ~FetchRaised(e)
    /\ LET data == JsonLoads(e.answer)
       IN  /\ data.kind = "list"
           /\ Len(data.val) > 1
           /\ data.val[2].kind = "list"
           /\ Len(data.val[2].val) > 0
           /\ \A i \in 1..Len(data.val[2].val) :
                 /\ data.val[2].val[i].kind = "dict"
                 /\ DictGetOrNone(data.val[2].val[i], "country").kind \in {"dict", "none"}

ApiRowsOf(e) == JsonLoads(e.answer).val[2].val

IndicatorOf(code) == INDICATORS[CHOOSE k \in 1..Len(INDICATORS) : INDICATORS[k].code = code]

\* the cell of a written row in the named column
WbCell(df, i, name) == df.rows[i][ColIndex(df, name)]

\* what the output row of an API row has to hold
ExpectedCells(r, e) ==
    [country |-> IF DictGetOrNone(r, "country").kind = "dict"
                 THEN DictGetOrNone(DictGetOrNone(r, "country"), "value") ELSE PyNone,
     iso2c |-> PyStr(e.country),
     year |-> DictGetOrNone(r, "date"),
     indicator |-> PyStr(e.indicator),
     value |-> DictGetOrNone(r, "value"),
     unit |-> PyStr(IndicatorOf(e.indicator).unit)]

CellsOf(df, i) ==
    [country |-> WbCell(df, i, "country"), iso2c |-> WbCell(df, i, "iso2c"),
     year |-> WbCell(df, i, "year"), indicator |-> WbCell(df, i, "indicator"),
     value |-> WbCell(df, i, "value"), unit |-> WbCell(df, i, "unit")]

\* C19: for a non-empty series response the run writes one output row per
\* API row, with iso2c the configured country code, indicator the configured
\* code, unit the configured unit, and country, year and value those of the
\* API row; the manifest entry counts as many rows as the API sent.
C19_OneRowPerApiRow ==
    \A n \in WbSeriesFetches :
        LET e == wbLog.fetches[n] IN
        SeriesHasApiRows(e) =>
            /\ <<e.indicator, e.country>> \in wbLog.wrote
            /\ LET df == wbDir.files[<<e.indicator, e.country>>].val
                   api == ApiRowsOf(e)
               IN  /\ SameRows([i \in 1..Len(df.rows) |-> CellsOf(df, i)],
                               [i \in 1..Len(api) |-> ExpectedCells(api[i], e)])
                   /\ \E m \in 1..Len(wb.manifest_entries) :
                         /\ wb.manifest_entries[m].indicator = e.indicator
                         /\ wb.manifest_entries[m].country = e.country
                         /\ wb.manifest_entries[m].rows = Len(api)
                   /\ Cardinality({m \in 1..Len(wb.manifest_entries) :
                                      /\ wb.manifest_entries[m].indicator = e.indicator
                                      /\ wb.manifest_entries[m].country = e.country}) = 1

\* a run wrote the two rows of a response, for an indicator with a unit and
\* rows that name another country code than the configured one
C19_Witness ==
    /\ WbRunEnded
    /\ \E n \in WbSeriesFetches :
          LET e == wbLog.fetches[n] IN
          /\ SeriesHasApiRows(e)
          /\ Len(ApiRowsOf(e)) = 2
          /\ IndicatorOf(e.indicator).unit # ""
          /\ DictGetOrNone(DictGetOrNone(ApiRowsOf(e)[1], "country"), "id") # PyStr(e.country)
          /\ Len(wbDir.files[<<e.indicator, e.country>>].val.rows) = 2

\* the years of a written table, top to bottom
YearsOf(df) == [i \in 1..Len(df.rows) |-> WbCell(df, i, "year").val]

\* "2019" before "2020": the years of the responses, in ascending order
YearOrder == <<"2019", "2020">>
YearRank(y) == CHOOSE k \in 1..Len(YearOrder) : YearOrder[k] = y

\* C20: every World Bank CSV has its rows in ascending order of year,
\* whatever the order of the rows in the API response.
C20_CsvAscendingByYear ==
    \A key \in DOMAIN wbDir.files :
        Exists(wbDir.files[key]) =>
            LET years == YearsOf(wbDir.files[key].val)
            IN  \A i \in 1..(Len(years) - 1) : YearRank(years[i]) <= YearRank(years[i + 1])

\* a run wrote the file of a response that came newest year first
C20_Witness ==
    \E n \in WbSeriesFetches :
        LET e == wbLog.fetches[n] IN
        /\ SeriesHasApiRows(e)
        /\ DictGetOrNone(ApiRowsOf(e)[1], "date") = PyStr("2020")
        /\ DictGetOrNone(ApiRowsOf(e)[2], "date") = PyStr("2019")
        /\ <<e.indicator, e.country>> \in wbLog.wrote
        /\ YearsOf(wbDir.files[<<e.indicator, e.country>>].val) = <<"2019", "2020">>

(***************************************************************************)
(* Claims on the cache store                                               *)
(***************************************************************************)
SetThenGet ==
    /\ call.op = "get"
    /\ call.after.op = "set"
    /\ call.after.key = call.key
    /\ call.ttl > 0

AgedBeyondTtl ==
    /\ call.op = "get"
    /\ call.ttl > 0
    /\ Exists(cache[call.key])
    /\ call.at - cache[call.key].mtime > call.ttl

\* C7 (amended): cache_set(key, v) followed immediately by
\* cache_get(key, ttl_hours > 0) returns v unchanged for every payload v that
\* is a JSON value (None, number, string, list, dict with string keys); an
\* entry older than ttl_hours > 0 is answered with None.
C7_RoundTripJsonValues ==
    /\ (SetThenGet /\ JsonNative(call.after.value)) => call.ret = call.after.value
    /\ AgedBeyondTtl => call.ret = PyNone

\* C7 as stated: the round trip returns every json.dumps-able payload unchanged.
C7_RoundTripEveryPayload ==
    /\ SetThenGet => call.ret = call.after.value
    /\ AgedBeyondTtl => call.ret = PyNone

C7_Witness ==
    /\ SetThenGet
    /\ call.after.value.kind = "dict"
    /\ JsonNative(call.after.value)
    /\ call.ret = call.after.value

ParseFails(f) == f.val.kind = "garbage"
StoredNull(f) == f.val.kind = "jnull"

Expired(f) == call.ttl > 0 /\ call.at - f.mtime > call.ttl

\* C8 (amended): cache_get returns None exactly when the entry file does not
\* exist, or ttl_hours > 0 and the entry is older than ttl_hours, or the
\* stored text fails to parse, or the stored payload is JSON null; with
\* ttl_hours = 0 an existing parseable entry is returned whatever its age.
C8_AbsentExactlyWhen ==
    call.op = "get" =>
        LET f == cache[call.key] IN
        /\ call.ret = PyNone <=>
                (~Exists(f) \/ Expired(f) \/ ParseFails(f) \/ StoredNull(f))
        /\ (call.ttl = 0 /\ Exists(f) /\ ~ParseFails(f)) => call.ret = JsonLoads(f.val)

\* C8 as stated: None exactly in the three cases missing, expired, unparseable.
C8_AbsentOnlyThreeCases ==
    call.op = "get" =>
        LET f == cache[call.key] IN
        /\ call.ret = PyNone <=> (~Exists(f) \/ Expired(f) \/ ParseFails(f))
        /\ (call.ttl = 0 /\ Exists(f) /\ ~ParseFails(f)) => call.ret = JsonLoads(f.val)

C8_Witness ==
    /\ call.op = "get"
    /\ call.ttl = 0
    /\ Exists(cache[call.key])
    /\ call.at - cache[call.key].mtime >= 2
    /\ call.ret.kind = "dict"

\* C9: _download_with_cache serves the stored archive without a request if
\* and only if cache_get would return a parseable entry of the same age
\* under the same ttl_hours, ttl_hours = 0 included.
C9_ZipSameTtlPolicy ==
    (call.op = "download" /\ Exists(call.seen)) =>
        (~call.http <=>
            cache_get(File(JsonDumps(PyInt(1)), call.seen.mtime), call.at, call.ttl) # PyNone)

====
